---- MODULE Spec2Model ----
(***************************************************************************)
(* Model of crossword-generator/crossword_generator.py: the CrosswordGrid  *)
(* placement/validation engine, the single-attempt constructor and the     *)
(* batch orchestrator of CrosswordGenerator.                               *)
(*                                                                         *)
(* Conventions.  Rows and columns are 0-based as in the source; a Python   *)
(* list is a 1-based TLA+ sequence, so grid[r][c] is g.grid[r+1][c+1] and  *)
(* word[i] is word[i+1].  A str is a sequence of one-letter strings.       *)
(* Optional arguments (x = None) are None == <<>> or Some(x) == <<x>>.     *)
(***************************************************************************)
EXTENDS Integers, Sequences, FiniteSets, TLC

VARIABLES
    generator,                        \* the CrosswordGenerator (corpus index)
    grid,                             \* the working CrosswordGrid
    pc,                               \* position in the running function
    iteration,                        \* expansion pass of the attempt
    attempt_result,                   \* (grid, is_valid, quality_score)
    attempt_results,                  \* what an attempt of the batch can return
    count,                            \* generate_crosswords_batch argument
    max_iterations,                   \* generate_crosswords_batch argument
    attempt,                          \* batch loop counter
    perfect_crosswords,
    imperfect_crosswords,
    constraint_violating_crosswords,
    result,                           \* list returned by the batch
    log,                              \* history: what each attempt produced
    cache,                            \* the _cached_* fields of the grid
    returned                          \* the last call on the grid or the
                                      \* generator, and what it returned

vars == <<generator, grid, pc, iteration, attempt_result, attempt_results,
          count, max_iterations, attempt, perfect_crosswords,
          imperfect_crosswords, constraint_violating_crosswords, result, log,
          cache, returned>>

gridVars == <<grid, pc, iteration, attempt_result>>
batchVars == <<attempt_results, count, max_iterations, attempt,
               perfect_crosswords, imperfect_crosswords,
               constraint_violating_crosswords, result, log>>
queryVars == <<cache, returned>>

----------------------------------------------------------------------------
(* Bounds of the model *)

Width == 3
Height == 3
LargeWidth == 4
LargeHeight == 4
MaxPlacements == 3
MaxCount == 3
MaxIterations == 5
MaxQueryPlacements == 2
MaxResults == 3

----------------------------------------------------------------------------
(* Python helpers *)

None == <<>>
Some(x) == <<x>>

Min(a, b) == IF a < b THEN a ELSE b
Max(a, b) == IF a > b THEN a ELSE b

\* range(a, b) as a list
Range(a, b) == [i \in 1..Max(0, b - a) |-> a + i - 1]

\* F applied to the value of x: x is evaluated once, however often F uses it
With(x, F(_)) == CHOOSE r \in {F(v) : v \in {x}} : TRUE

\* s[:n], with Python's meaning of a negative n
Prefix(s, n) ==
    With(s, LAMBDA v :
        IF n >= 0 THEN SubSeq(v, 1, Min(n, Len(v)))
        ELSE SubSeq(v, 1, Max(0, Len(v) + n)))

\* the lists ss[i], ss[i + 1], ... joined
RECURSIVE FlattenFrom(_, _)
FlattenFrom(ss, i) ==
    IF i > Len(ss) THEN <<>> ELSE ss[i] \o FlattenFrom(ss, i + 1)

Flatten(ss) == With(ss, LAMBDA v : FlattenFrom(v, 1))

ToSet(s) == With(s, LAMBDA v : {v[i] : i \in 1..Len(v)})

RECURSIVE SumFrom(_, _)
SumFrom(s, i) == IF i > Len(s) THEN 0 ELSE s[i] + SumFrom(s, i + 1)

SumSeq(s) == With(s, LAMBDA v : SumFrom(v, 1))

\* "x in y" for two str
IsSubstring(x, y) ==
    \E k \in 0..(Len(y) - Len(x)) : SubSeq(y, k + 1, k + Len(x)) = x

----------------------------------------------------------------------------
(* Direction, Word, CrosswordGrid *)

ACROSS == "across"
DOWN == "down"
Directions == {ACROSS, DOWN}

Word(text, row, col, direction, clue, quality) ==
    [text |-> text, row |-> row, col |-> col, direction |-> direction,
     clue |-> clue, quality |-> quality]

\* CrosswordGrid(width, height): __post_init__ fills the grid with "."
NewGrid(width, height) ==
    [width |-> width, height |-> height,
     grid |-> [r \in 1..height |-> [c \in 1..width |-> "."]],
     words |-> <<>>]

Cell(g, row, col) == g.grid[row + 1][col + 1]

\* a scan that does not walk up from the covered cell
RunStartsAtCell(g, row, col) == row

\* first row of the vertical run through (row, col), scanning self.grid
RECURSIVE RunStartRow(_, _, _)
RunStartRow(g, row, col) ==
    IF row > 0 /\ Cell(g, row - 1, col) # "."
    THEN RunStartRow(g, row - 1, col) ELSE row

RECURSIVE RunEndRow(_, _, _)
RunEndRow(g, row, col) ==
    IF row < g.height - 1 /\ Cell(g, row + 1, col) # "."
    THEN RunEndRow(g, row + 1, col) ELSE row

RECURSIVE RunStartCol(_, _, _)
RunStartCol(g, row, col) ==
    IF col > 0 /\ Cell(g, row, col - 1) # "."
    THEN RunStartCol(g, row, col - 1) ELSE col

\* a scan that does not walk right from the covered cell
RunEndsAtCell(g, row, col) == col

RECURSIVE RunEndCol(_, _, _)
RunEndCol(g, row, col) ==
    IF col < g.width - 1 /\ Cell(g, row, col + 1) # "."
    THEN RunEndCol(g, row, col + 1) ELSE col

\* the inner "is_existing_word" loops over self.words
IsExistingWord(g, sequence, row, col, direction) ==
    \E k \in 1..Len(g.words) :
        /\ g.words[k].direction = direction
        /\ g.words[k].row = row
        /\ g.words[k].col = col
        /\ g.words[k].text = sequence

\* _get_new_sequences_from_placement: the perpendicular runs through the
\* cells the word would cover, as (sequence, row, col, direction) tuples
GetNewSequencesFromPlacement(g, word, row, col, direction) ==
    IF direction = ACROSS
    THEN Flatten([k \in 1..Len(word) |->
           LET word_col == col + (k - 1)
               start_row == RunStartRow(g, row, word_col)
               end_row == RunEndRow(g, row, word_col)
               sequence == [j \in 1..(end_row - start_row + 1) |->
                              IF start_row + j - 1 = row THEN word[k]
                              ELSE Cell(g, start_row + j - 1, word_col)]
           IN  IF end_row - start_row + 1 >= 2
                  /\ ~IsExistingWord(g, sequence, start_row, word_col, DOWN)
               THEN << <<sequence, start_row, word_col, DOWN>> >>
               ELSE <<>>])
    ELSE Flatten([k \in 1..Len(word) |->
           LET word_row == row + (k - 1)
               start_col == RunStartCol(g, word_row, col)
               end_col == RunEndCol(g, word_row, col)
               sequence == [j \in 1..(end_col - start_col + 1) |->
                              IF start_col + j - 1 = col THEN word[k]
                              ELSE Cell(g, word_row, start_col + j - 1)]
           IN  IF end_col - start_col + 1 >= 2
                  /\ ~IsExistingWord(g, sequence, word_row, start_col, ACROSS)
               THEN << <<sequence, word_row, start_col, ACROSS>> >>
               ELSE <<>>])

\* is_valid_placement, lines 79-104: bounds, conflicts, boundaries
\* a validator without the end-adjacency rule
PlacementWithoutAdjacencyRule(g, word, row, col, direction) ==
    IF direction = ACROSS
    THEN /\ ~(col + Len(word) > g.width)
         /\ \A i \in 0..(Len(word) - 1) :
                ~(Cell(g, row, col + i) # "."
                  /\ Cell(g, row, col + i) # word[i + 1])
    ELSE /\ ~(row + Len(word) > g.height)
         /\ \A i \in 0..(Len(word) - 1) :
                ~(Cell(g, row + i, col) # "."
                  /\ Cell(g, row + i, col) # word[i + 1])

\* a validator without the letter-conflict rule
PlacementWithoutConflictRule(g, word, row, col, direction) ==
    IF direction = ACROSS
    THEN /\ ~(col + Len(word) > g.width)
         /\ ~(col > 0 /\ Cell(g, row, col - 1) # ".")
         /\ ~(col + Len(word) < g.width
              /\ Cell(g, row, col + Len(word)) # ".")
    ELSE /\ ~(row + Len(word) > g.height)
         /\ ~(row > 0 /\ Cell(g, row - 1, col) # ".")
         /\ ~(row + Len(word) < g.height
              /\ Cell(g, row + Len(word), col) # ".")

BasicPlacementOk(g, word, row, col, direction) ==
    IF direction = ACROSS
    THEN /\ ~(col + Len(word) > g.width)
         /\ \A i \in 0..(Len(word) - 1) :
                ~(Cell(g, row, col + i) # "."
                  /\ Cell(g, row, col + i) # word[i + 1])
         /\ ~(col > 0 /\ Cell(g, row, col - 1) # ".")
         /\ ~(col + Len(word) < g.width
              /\ Cell(g, row, col + Len(word)) # ".")
    ELSE /\ ~(row + Len(word) > g.height)
         /\ \A i \in 0..(Len(word) - 1) :
                ~(Cell(g, row + i, col) # "."
                  /\ Cell(g, row + i, col) # word[i + 1])
         /\ ~(row > 0 /\ Cell(g, row - 1, col) # ".")
         /\ ~(row + Len(word) < g.height
              /\ Cell(g, row + Len(word), col) # ".")

\* a corpus check that looks at sequences of 4+ letters only
NewSequencesOkAboveThree(g, word, row, col, direction, answers) ==
    LET new_sequences == GetNewSequencesFromPlacement(g, word, row, col, direction)
    IN  \A n \in 1..Len(new_sequences) :
            LET s == new_sequences[n]
            IN  Len(s[1]) > 3 =>
                    ~(~IsExistingWord(g, s[1], s[2], s[3], s[4])
                      /\ s[1] \notin answers)

\* is_valid_placement, lines 108-131: every new sequence of 3+ letters is
\* an already placed word or one of available_answers
NewSequencesOk(g, word, row, col, direction, answers) ==
    LET new_sequences == GetNewSequencesFromPlacement(g, word, row, col, direction)
    IN  \A n \in 1..Len(new_sequences) :
            LET s == new_sequences[n]
            IN  Len(s[1]) >= 3 =>
                    ~(~IsExistingWord(g, s[1], s[2], s[3], s[4])
                      /\ s[1] \notin answers)

IsValidPlacement(g, word, row, col, direction, available_answers) ==
    /\ BasicPlacementOk(g, word, row, col, direction)
    /\ available_answers # None =>
           NewSequencesOk(g, word, row, col, direction, available_answers[1])

\* the cell matrix after place_word
PlaceLetters(g, word, row, col, direction) ==
    [r \in 1..g.height |-> [c \in 1..g.width |->
        IF direction = ACROSS
        THEN IF r - 1 = row /\ c - 1 >= col /\ c - 1 < col + Len(word)
             THEN word[c - col] ELSE g.grid[r][c]
        ELSE IF c - 1 = col /\ r - 1 >= row /\ r - 1 < row + Len(word)
             THEN word[r - row] ELSE g.grid[r][c]]]

PlaceWord(g, word, row, col, direction, clue, quality) ==
    [g EXCEPT !.grid = PlaceLetters(g, word, row, col, direction),
              !.words = Append(g.words,
                               Word(word, row, col, direction, clue, quality))]

----------------------------------------------------------------------------
(* CrosswordGrid: derived queries *)

Row(g, row) == g.grid[row + 1]
Column(g, col) == [r \in 1..g.height |-> g.grid[r][col + 1]]

\* count_empty_squares
CountEmptySquares(g) ==
    Cardinality({rc \in (0..(g.height - 1)) \X (0..(g.width - 1)) :
                    Cell(g, rc[1], rc[2]) = "."})

\* one "for cell in row" loop of count_consecutive_empty_violations:
\* every empty cell that makes the running count exceed the limit adds one
RECURSIVE LineViolations(_, _, _, _)
LineViolations(line, pos, consecutive_empty, max_consecutive) ==
    IF pos > Len(line) THEN 0
    ELSE IF line[pos] = "."
         THEN (IF consecutive_empty + 1 > max_consecutive THEN 1 ELSE 0)
              + LineViolations(line, pos + 1, consecutive_empty + 1,
                               max_consecutive)
         ELSE LineViolations(line, pos + 1, 0, max_consecutive)

\* count_consecutive_empty_violations
CountConsecutiveEmptyViolations(g) ==
    LET max_consecutive == Max(g.width, g.height) \div 2
    IN  SumSeq([r \in 1..g.height |->
                   LineViolations(Row(g, r - 1), 1, 0, max_consecutive)])
        + SumSeq([c \in 1..g.width |->
                   LineViolations(Column(g, c - 1), 1, 0, max_consecutive)])

\* has_excessive_consecutive_empty_squares
HasExcessiveConsecutiveEmptySquares(g) ==
    CountConsecutiveEmptyViolations(g) > 0

\* a grid that reports no answer as used
NoAnswerUsed(g) == {}

\* get_used_answers
GetUsedAnswers(g) == {g.words[k].text : k \in 1..Len(g.words)}

\* the inner while loop of get_all_letter_sequences: first index at or
\* after pos (0-based) that is off the line or empty
RECURSIVE RunStop(_, _)
RunStop(line, pos) ==
    IF pos < Len(line) /\ line[pos + 1] # "." THEN RunStop(line, pos + 1)
    ELSE pos

\* the outer while loop: the runs of 2+ letters of one line, as
\* (sequence, start) pairs
RECURSIVE LineSequences(_, _)
LineSequences(line, pos) ==
    IF pos >= Len(line) THEN <<>>
    ELSE IF line[pos + 1] # "."
         THEN LET stop == RunStop(line, pos)
                  sequence == SubSeq(line, pos + 1, stop)
              IN  (IF Len(sequence) > 1 THEN << <<sequence, pos>> >> ELSE <<>>)
                  \o LineSequences(line, stop)
         ELSE LineSequences(line, pos + 1)

\* get_all_letter_sequences: rows first, then columns
GetAllLetterSequences(g) ==
    Flatten([r \in 1..g.height |->
               LET runs == LineSequences(Row(g, r - 1), 0)
               IN  [n \in 1..Len(runs) |->
                       <<runs[n][1], r - 1, runs[n][2], ACROSS>>]])
    \o
    Flatten([c \in 1..g.width |->
               LET runs == LineSequences(Column(g, c - 1), 0)
               IN  [n \in 1..Len(runs) |->
                       <<runs[n][1], runs[n][2], c - 1, DOWN>>]])

\* get_placed_words_set
GetPlacedWordsSet(g) ==
    {<<g.words[k].text, g.words[k].row, g.words[k].col, g.words[k].direction>> :
        k \in 1..Len(g.words)}

\* count_invalid_sequences, lines 374-382: the loop over all_sequences
InvalidAmong(all_sequences, placed_words, available_answers) ==
    Cardinality({n \in 1..Len(all_sequences) :
        /\ all_sequences[n] \notin placed_words
        /\ Len(all_sequences[n][1]) >= 2
        /\ all_sequences[n][1] \notin available_answers})

\* count_invalid_sequences, computed from the grid (lines 372-382)
CountInvalidSequences(g, available_answers) ==
    LET all_sequences == GetAllLetterSequences(g)
        placed_words == GetPlacedWordsSet(g)
    IN  InvalidAmong(all_sequences, placed_words, available_answers)

\* _words_overlap
WordsOverlap(word1, word2) ==
    IF word1.direction = word2.direction THEN FALSE
    ELSE IF word1.direction = ACROSS
         THEN /\ word1.row = word2.row
              /\ word2.col >= word1.col
              /\ word2.col < word1.col + Len(word1.text)
         ELSE /\ word1.col = word2.col
              /\ word2.row >= word1.row
              /\ word2.row < word1.row + Len(word1.text)

\* a quality loop that matches no entry and returns the default
DefaultQuality(cl, sequence) == 2

\* the quality loop of process_unintended_sequences: first clue_list entry
\* for the answer, 2 when there is none
RECURSIVE LookupQuality(_, _)
LookupQuality(cl, sequence) ==
    IF cl = <<>> THEN 2
    ELSE IF Head(cl)[2] = sequence THEN Head(cl)[3]
    ELSE LookupQuality(Tail(cl), sequence)

\* a promotion with the threshold of count_invalid_sequences, 2 letters
UnintendedAmongFromTwo(all_sequences, placed_words, available_answers, clue_lookup, cl) ==
    With(SelectSeq(all_sequences,
                   LAMBDA s : /\ s \notin placed_words
                              /\ Len(s[1]) >= 2
                              /\ s[1] \in available_answers),
         LAMBDA valid :
            [n \in 1..Len(valid) |->
                Word(valid[n][1], valid[n][2], valid[n][3], valid[n][4],
                     IF valid[n][1] \in DOMAIN clue_lookup
                     THEN clue_lookup[valid[n][1]]
                     ELSE <<"Unknown word: ", valid[n][1]>>,
                     LookupQuality(cl, valid[n][1]))])

\* process_unintended_sequences, lines 397-414: the valid unintended words
\* among the sequences and placed words the two queries returned
UnintendedAmong(all_sequences, placed_words, available_answers, clue_lookup, cl) ==
    With(SelectSeq(all_sequences,
                   LAMBDA s : /\ s \notin placed_words
                              /\ Len(s[1]) >= 3
                              /\ s[1] \in available_answers),
         LAMBDA valid :
            [n \in 1..Len(valid) |->
                Word(valid[n][1], valid[n][2], valid[n][3], valid[n][4],
                     IF valid[n][1] \in DOMAIN clue_lookup
                     THEN clue_lookup[valid[n][1]]
                     ELSE <<"Unknown word: ", valid[n][1]>>,
                     LookupQuality(cl, valid[n][1]))])

\* process_unintended_sequences, lines 395-414, computed from the grid
UnintendedSequences(g, available_answers, clue_lookup, cl) ==
    With(GetAllLetterSequences(g), LAMBDA all_sequences :
    With(GetPlacedWordsSet(g), LAMBDA placed_words :
        UnintendedAmong(all_sequences, placed_words, available_answers,
                        clue_lookup, cl)))

\* process_unintended_sequences, lines 416-421
UpdatedWords(g, available_answers, clue_lookup, cl) ==
    g.words \o UnintendedSequences(g, available_answers, clue_lookup, cl)

\* process_unintended_sequences, lines 423-436
WordsToRemove(updated_words) ==
    With(ToSet(updated_words), LAMBDA words :
        {word \in words :
            \E other_word \in words :
                /\ word # other_word
                /\ IsSubstring(word.text, other_word.text)
                /\ Len(word.text) < Len(other_word.text)
                /\ WordsOverlap(word, other_word)})

\* process_unintended_sequences, lines 438-441
FinalWords(updated_words) ==
    With(WordsToRemove(updated_words), LAMBDA words_to_remove :
        SelectSeq(updated_words, LAMBDA w : w \notin words_to_remove))

\* process_unintended_sequences
ProcessUnintendedSequences(g, available_answers, clue_lookup, cl) ==
    With(UpdatedWords(g, available_answers, clue_lookup, cl),
         LAMBDA updated_words : FinalWords(updated_words))

\* get_final_words
GetFinalWords(g, available_answers, clue_lookup, cl) ==
    IF available_answers # None /\ clue_lookup # None
    THEN ProcessUnintendedSequences(g, available_answers[1], clue_lookup[1], cl)
    ELSE g.words

\* get_final_word_count
GetFinalWordCount(g, available_answers, clue_lookup, cl) ==
    Len(GetFinalWords(g, available_answers, clue_lookup, cl))

----------------------------------------------------------------------------
(* The cache of a CrosswordGrid.  Each query keeps what it computed in a   *)
(* _cached_* field and returns that field while it is not None;            *)
(* _invalidate_cache resets the fields.  A field is None or Some(value).   *)
(* A cached query is modelled by the value it returns and the cache it     *)
(* leaves.                                                                  *)

\* __post_init__, lines 54-55: the five fields are None, and the attribute
\* _cached_invalid_answers_id does not exist yet (None here)
NoCache ==
    [sequences |-> None, placed_words |-> None, used_answers |-> None,
     empty_squares |-> None, invalid_sequences |-> None,
     invalid_answers_id |-> None]

\* no call has been made yet
NoCall == [op |-> "none", value |-> None, again |-> FALSE]

\* _invalidate_cache
InvalidateCache(c) ==
    [c EXCEPT !.sequences = None, !.placed_words = None,
              !.used_answers = None, !.empty_squares = None,
              !.invalid_sequences = None]

\* count_empty_squares, lines 252-261
CachedCountEmptySquares(g, c) ==
    IF c.empty_squares # None
    THEN [value |-> c.empty_squares, cache |-> c]
    ELSE With(CountEmptySquares(g), LAMBDA n :
             [value |-> Some(n), cache |-> [c EXCEPT !.empty_squares = Some(n)]])

\* get_used_answers, lines 308-312
CachedGetUsedAnswers(g, c) ==
    IF c.used_answers # None
    THEN [value |-> c.used_answers, cache |-> c]
    ELSE With(GetUsedAnswers(g), LAMBDA u :
             [value |-> Some(u), cache |-> [c EXCEPT !.used_answers = Some(u)]])

\* get_all_letter_sequences, lines 316-354
CachedGetAllLetterSequences(g, c) ==
    IF c.sequences # None
    THEN [value |-> c.sequences, cache |-> c]
    ELSE With(GetAllLetterSequences(g), LAMBDA sequences :
             [value |-> Some(sequences),
              cache |-> [c EXCEPT !.sequences = Some(sequences)]])

\* get_placed_words_set, lines 358-362
CachedGetPlacedWordsSet(g, c) ==
    IF c.placed_words # None
    THEN [value |-> c.placed_words, cache |-> c]
    ELSE With(GetPlacedWordsSet(g), LAMBDA placed :
             [value |-> Some(placed),
              cache |-> [c EXCEPT !.placed_words = Some(placed)]])

\* count_invalid_sequences, lines 367-386.  cache_key is id(available_answers);
\* the dataclass field _cached_invalid_sequences always exists, so the cached
\* field is returned, whatever it holds, once _cached_invalid_answers_id
\* exists and equals the key.
CachedCountInvalidSequences(g, c, available_answers, cache_key) ==
    IF c.invalid_answers_id = Some(cache_key)
    THEN [value |-> c.invalid_sequences, cache |-> c]
    ELSE With(CachedGetAllLetterSequences(g, c), LAMBDA all_sequences :
         With(CachedGetPlacedWordsSet(g, all_sequences.cache),
              LAMBDA placed_words :
         With(InvalidAmong(all_sequences.value[1], placed_words.value[1],
                           available_answers),
              LAMBDA invalid_sequences :
                  [value |-> Some(invalid_sequences),
                   cache |-> [placed_words.cache EXCEPT
                                 !.invalid_sequences = Some(invalid_sequences),
                                 !.invalid_answers_id = Some(cache_key)]])))

\* a reconciler that extends self.words itself
GridSharingWords(g, updated_words) == [g EXCEPT !.words = updated_words]

\* line 417, updated_words = self.words[:]: the list that is extended is a
\* copy, and the grid keeps its own
GridAfterReconciling(g, updated_words) == g

\* process_unintended_sequences on a grid with its cache: the list before
\* the subsumed words are dropped, the returned list, the grid and the cache
CachedProcessUnintendedSequences(g, c, available_answers, clue_lookup, cl) ==
    With(CachedGetAllLetterSequences(g, c), LAMBDA all_sequences :
    With(CachedGetPlacedWordsSet(g, all_sequences.cache), LAMBDA placed_words :
    With(g.words \o UnintendedAmong(all_sequences.value[1],
                                    placed_words.value[1], available_answers,
                                    clue_lookup, cl),
         LAMBDA updated_words :
             [updated_words |-> updated_words,
              value |-> Some(FinalWords(updated_words)),
              grid |-> GridAfterReconciling(g, updated_words),
              cache |-> placed_words.cache])))

----------------------------------------------------------------------------
(* The corpora the generator is loaded with: (clue, answer, quality)       *)
(* triples, quality ascending, as build_master_clue_list writes them       *)

PAT == <<"P", "A", "T">>
ERA == <<"E", "R", "A">>
TEN == <<"T", "E", "N">>
TED == <<"T", "E", "D">>
PET == <<"P", "E", "T">>
ARE == <<"A", "R", "E">>
TAN == <<"T", "A", "N">>
TAD == <<"T", "A", "D">>
ER == <<"E", "R">>
RA == <<"R", "A">>
RAT == <<"R", "A", "T">>

\* PAT/ERA/TEN over PET/ARE/TAN fills the 3x3 grid; TED with the
\* dictionary-only TAD is the variant with a quality-2 column
MainCorpus ==
    << <<"Gentle tap", PAT, 1>>, <<"Historical period", ERA, 1>>,
       <<"Number of fingers", TEN, 1>>, <<"Talk series", TED, 1>>,
       <<"Cat or dog", PET, 1>>, <<"Exist, plural", ARE, 1>>,
       <<"Sun-kissed", TAN, 1>>, <<"Hesitant sound", ER, 1>>,
       <<"TAD", TAD, 2>> >>

\* only dictionary words: no quality-1 seed exists
DictionaryCorpus == << <<"TAD", TAD, 2>>, <<"TAN", TAN, 2>> >>

IJKL == <<"I", "J", "K", "L">>
EFGH == <<"E", "F", "G", "H">>
MNOP == <<"M", "N", "O", "P">>
XNOP == <<"X", "N", "O", "P">>
CGKO == <<"C", "G", "K", "O">>
DHLP == <<"D", "H", "L", "P">>
QHLP == <<"Q", "H", "L", "P">>
FJN == <<"F", "J", "N">>
EIM == <<"E", "I", "M">>
EIX == <<"E", "I", "X">>
CQ == <<"C", "Q">>

\* a corpus for the 4x4 grid: rows EFGH, IJKL and MNOP or XNOP under the
\* tops of the columns CGKO and DHLP or QHLP.  The top row then reads CD,
\* which is no answer, or CQ, which is one; the first column reads EIM or
\* the dictionary-only EIX.
SquareCorpus ==
    << <<"Row two", IJKL, 1>>, <<"Row one", EFGH, 1>>,
       <<"Row three", MNOP, 1>>, <<"Row three, again", XNOP, 1>>,
       <<"Column two", CGKO, 1>>, <<"Column three", DHLP, 1>>,
       <<"Column three, again", QHLP, 1>>, <<"Column one", FJN, 1>>,
       <<"Column zero", EIM, 1>>, <<"EIX", EIX, 2>>, <<"CQ", CQ, 2>> >>

\* a corpus for the 4x4 grid that fills the whole grid: rows ABCD or ABCY,
\* EFGH, IJKL and MNOP or XNOP, columns AEIM, BFJN, CGKO and DHLP.  Under
\* the row XNOP the first column reads the dictionary-only AEIX, and beside
\* the row ABCY the last column reads the dictionary-only YHLP, so a grid
\* can hold no, one or two words of quality 2.
WordSquareCorpus ==
    << <<"Row two", IJKL, 1>>, <<"Row one", EFGH, 1>>,
       <<"Row three", MNOP, 1>>, <<"Row three, again", XNOP, 1>>,
       <<"Row zero", <<"A", "B", "C", "D">>, 1>>,
       <<"Row zero, again", <<"A", "B", "C", "Y">>, 1>>,
       <<"Column two", CGKO, 1>>, <<"Column three", DHLP, 1>>,
       <<"Column one", <<"B", "F", "J", "N">>, 1>>,
       <<"Column zero", <<"A", "E", "I", "M">>, 1>>,
       <<"AEIX", <<"A", "E", "I", "X">>, 2>>,
       <<"YHLP", <<"Y", "H", "L", "P">>, 2>> >>

\* a corpus for the 4x4 grid with more crossing words than one search
\* returns: the row IJKL and, for each of its letters, six three-letter
\* words that have the letter in the middle
FanCorpus ==
    LET FanFirst == <<"A", "B", "C">>
        FanLast == <<"A", "B">>
    IN  << <<"Row two", IJKL, 1>> >>
        \o [n \in 1..(Len(IJKL) * Len(FanFirst) * Len(FanLast)) |->
               <<"Crossing",
                 <<FanFirst[(((n - 1) \div Len(FanLast)) % Len(FanFirst)) + 1],
                   IJKL[(n - 1) \div (Len(FanFirst) * Len(FanLast)) + 1],
                   FanLast[((n - 1) % Len(FanLast)) + 1]>>,
                 1>>]

\* a master list with several clues for one answer: build_master_clue_list
\* keeps every distinct (clue, answer) pair of the crossword files, and a
\* dictionary pair only for an answer no crossword file has
ClueCorpus ==
    << <<"Gentle tap", PAT, 1>>, <<"Historical period", ERA, 1>>,
       <<"Hesitant sound", ER, 1>>, <<"Sun god", RA, 1>>,
       <<"Hospital drama", ER, 1>>, <<"Cat or dog", PET, 1>>,
       <<"Exist, plural", ARE, 1>>, <<"Sun-kissed", TAN, 1>>,
       <<"Number of fingers", TEN, 1>>, <<"Egyptian sun god", RA, 1>>,
       <<"TAD", TAD, 2>>, <<"Small amount", TAD, 2>> >>

\* the master list written when no crossword file yields a clue
EmptyCorpus == <<>>

Corpora == {MainCorpus, DictionaryCorpus, ClueCorpus, EmptyCorpus}

----------------------------------------------------------------------------
(* CrosswordGenerator *)

MaxToCheck == 500
MaxIntersections == 20
IntersectionResults == 10
CenterResults == 20
TriedCandidates == 5
ExpansionPasses == 50

\* __init__, lines 562-589: available_answers, clue_lookup (a later entry
\* for the same answer replaces the earlier one) and answers_by_length
Generator(cl, width, height) ==
    LET max_word_length == Max(width, height)
        fits == SelectSeq(cl, LAMBDA e : Len(e[2]) <= max_word_length)
        answers == {fits[n][2] : n \in 1..Len(fits)}
        LastIndex(a) == CHOOSE n \in 1..Len(fits) :
                            /\ fits[n][2] = a
                            /\ \A m \in (n + 1)..Len(fits) : fits[m][2] # a
    IN  [width |-> width, height |-> height, clue_list |-> cl,
         available_answers |-> answers,
         clue_lookup |-> [a \in answers |-> fits[LastIndex(a)][1]],
         answers_by_length |->
             [length \in {Len(a) : a \in answers} |->
                 LET bucket == SelectSeq(fits, LAMBDA e : Len(e[2]) = length)
                 IN  [n \in 1..Len(bucket) |->
                         <<bucket[n][2], bucket[n][1], bucket[n][3]>>]]]

\* all(p == "." or p == a for p, a in zip(pattern, answer))
PatternMatches(pattern, answer) ==
    \A i \in 1..Min(Len(pattern), Len(answer)) :
        pattern[i] = "." \/ pattern[i] = answer[i]

\* the for loop of get_best_quality_words, from entry number checked + 1
RECURSIVE BestQualityScan(_, _, _, _, _, _, _, _)
BestQualityScan(bucket, checked, max_to_check, results, pattern, used_answers, max_results, target_quality) ==
    IF checked >= Len(bucket) \/ checked + 1 > max_to_check THEN results
    ELSE LET e == bucket[checked + 1]
             skip == \/ e[3] > target_quality
                     \/ e[1] \in used_answers
                     \/ /\ pattern # None
                        /\ \/ Len(e[1]) # Len(pattern[1])
                           \/ ~PatternMatches(pattern[1], e[1])
         IN  IF skip
             THEN BestQualityScan(bucket, checked + 1, max_to_check, results,
                                  pattern, used_answers, max_results,
                                  target_quality)
             ELSE IF Len(results) + 1 >= max_results
                  THEN Append(results, e)
                  ELSE BestQualityScan(bucket, checked + 1, max_to_check,
                                       Append(results, e), pattern,
                                       used_answers, max_results,
                                       target_quality)

\* get_best_quality_words
GetBestQualityWords(gen, length, pattern, used_answers, max_results, target_quality) ==
    IF length \notin DOMAIN gen.answers_by_length THEN <<>>
    ELSE BestQualityScan(gen.answers_by_length[length], 0,
                         Min(MaxToCheck, Len(gen.answers_by_length[length])),
                         <<>>, pattern,
                         IF used_answers = None THEN {} ELSE used_answers[1],
                         max_results, target_quality)

\* find_intersecting_words, lines 822-859 / 880-917: the proposals for one
\* letter of the source word and one start offset of the crossing word
CrossingProposals(gen, g, char, row, col, direction, start, length, intersect_pos, used_answers) ==
    IF length < 3 \/ length > Min(g.width, g.height) THEN <<>>
    ELSE IF ~(0 <= intersect_pos /\ intersect_pos < length) THEN <<>>
    ELSE LET pattern == [i \in 1..length |->
                            IF i - 1 = intersect_pos THEN char ELSE "."]
             possible_words ==
                 GetBestQualityWords(gen, length, Some(pattern),
                                     Some(used_answers), IntersectionResults, 1)
         IN  IF direction = DOWN
             THEN SelectSeq([n \in 1..Len(possible_words) |->
                                <<possible_words[n][1], possible_words[n][2],
                                  possible_words[n][3], start, col, DOWN>>],
                      LAMBDA p :
                          /\ start + Len(p[1]) <= g.height
                          /\ (start = 0 \/ Cell(g, start - 1, col) = ".")
                          /\ (start + Len(p[1]) >= g.height
                              \/ Cell(g, start + Len(p[1]), col) = ".")
                          /\ IsValidPlacement(g, p[1], start, col, DOWN,
                                              Some(gen.available_answers)))
             ELSE SelectSeq([n \in 1..Len(possible_words) |->
                                <<possible_words[n][1], possible_words[n][2],
                                  possible_words[n][3], row, start, ACROSS>>],
                      LAMBDA p :
                          /\ start + Len(p[1]) <= g.width
                          /\ (start = 0 \/ Cell(g, row, start - 1) = ".")
                          /\ (start + Len(p[1]) >= g.width
                              \/ Cell(g, row, start + Len(p[1])) = ".")
                          /\ IsValidPlacement(g, p[1], row, start, ACROSS,
                                              Some(gen.available_answers)))

\* find_intersecting_words.  Every loop stops once max_intersections
\* proposals are collected and nothing is appended past that, so the list
\* is the first max_intersections of the proposals in loop order.
FindIntersectingWords(gen, g, word, row, col, direction) ==
    LET used_answers == GetUsedAnswers(g)
    IN  IF direction = ACROSS
        THEN Prefix(Flatten([k \in 1..Len(word) |->
                 LET starts == Range(Max(0, row - 2),
                                     Min(row + 1, g.height - 2))
                 IN  Flatten([n \in 1..Len(starts) |->
                         LET start_row == starts[n]
                             end_row == Min(start_row + 4, g.height - 1)
                         IN  CrossingProposals(gen, g, word[k], row,
                                 col + (k - 1), DOWN, start_row,
                                 end_row - start_row + 1, row - start_row,
                                 used_answers)])]),
                    MaxIntersections)
        ELSE Prefix(Flatten([k \in 1..Len(word) |->
                 LET starts == Range(Max(0, col - 2),
                                     Min(col + 1, g.width - 2))
                 IN  Flatten([n \in 1..Len(starts) |->
                         LET start_col == starts[n]
                             end_col == Min(start_col + 4, g.width - 1)
                         IN  CrossingProposals(gen, g, word[k],
                                 row + (k - 1), col, ACROSS, start_col,
                                 end_col - start_col + 1, col - start_col,
                                 used_answers)])]),
                    MaxIntersections)

----------------------------------------------------------------------------
(* Scoring.  A float that is a quotient of integers is kept as the pair   *)
(* [num, den], den >= 1.                                                   *)

Fraction(num, den) == [num |-> num, den |-> den]
FracEq(a, b) == a.num * b.den = b.num * a.den
FracLess(a, b) == a.num * b.den < b.num * a.den

\* an average taken over the placed words only
AverageOverPlacedWords(gen, g, available_answers, clue_lookup) ==
    IF g.words = <<>> THEN Fraction(0, 1)
    ELSE Fraction(SumSeq([n \in 1..Len(g.words) |-> g.words[n].quality]),
                  Len(g.words))

\* calculate_average_quality
CalculateAverageQuality(gen, g, available_answers, clue_lookup) ==
    With(IF available_answers # None /\ clue_lookup # None
         THEN GetFinalWords(g, available_answers, clue_lookup, gen.clue_list)
         ELSE g.words,
         LAMBDA final_words :
            IF final_words = <<>> THEN Fraction(0, 1)
            ELSE Fraction(SumSeq([n \in 1..Len(final_words) |->
                                     final_words[n].quality]),
                          Len(final_words)))

TargetWordCount == 20
QualityWeight == 50
DensityWeight == 2
ValidityWeight == 5
ConsecutiveWeight == 10

\* a penalty that weighs an empty square like an invalid sequence and an
\* invalid sequence like an empty square
PenaltyWithWeightsSwapped(final_word_count, avg_quality, empty_squares, invalid_sequences, consecutive_violations) ==
    Fraction((Max(0, TargetWordCount - final_word_count)
              + empty_squares * ValidityWeight
              + invalid_sequences * DensityWeight
              + consecutive_violations * ConsecutiveWeight) * avg_quality.den
             + Max(0, QualityWeight * avg_quality.den
                      - avg_quality.num * QualityWeight),
             avg_quality.den)

\* lines 955-986 of _score_constraint_violating_puzzle: the penalty
\* components and their total
TotalPenalty(final_word_count, avg_quality, empty_squares, invalid_sequences, consecutive_violations) ==
    LET word_penalty == Max(0, TargetWordCount - final_word_count)
        \* max(0, 50 - avg_quality * 50), times avg_quality.den
        quality_penalty_num ==
            Max(0, QualityWeight * avg_quality.den
                   - avg_quality.num * QualityWeight)
        density_penalty == empty_squares * DensityWeight
        validity_penalty == invalid_sequences * ValidityWeight
        consecutive_penalty == consecutive_violations * ConsecutiveWeight
    IN  Fraction((word_penalty + density_penalty + validity_penalty
                  + consecutive_penalty) * avg_quality.den
                 + quality_penalty_num,
                 avg_quality.den)

\* _score_constraint_violating_puzzle
ScoreConstraintViolatingPuzzle(gen, g) ==
    With(CalculateAverageQuality(gen, g, Some(gen.available_answers),
                                 Some(gen.clue_lookup)),
         LAMBDA avg_quality :
            TotalPenalty(GetFinalWordCount(g, Some(gen.available_answers),
                                           Some(gen.clue_lookup),
                                           gen.clue_list),
                         avg_quality,
                         CountEmptySquares(g),
                         CountInvalidSequences(g, gen.available_answers),
                         CountConsecutiveEmptyViolations(g)))

----------------------------------------------------------------------------
(* generate_single_crossword_attempt *)

MinWordsFloor == 6

\* the generators the attempts and the batch are run with
Generators ==
    {Generator(cl, Width, Height) : cl \in Corpora}
    \cup {Generator(SquareCorpus, LargeWidth, LargeHeight),
          Generator(WordSquareCorpus, LargeWidth, LargeHeight)}

\* lines 1032-1037
CenterWords(gen) ==
    LET max_word_length == Min(gen.width, gen.height)
        lengths == Range(max_word_length - 1, max_word_length + 1)
    IN  Flatten([n \in 1..Len(lengths) |->
                    GetBestQualityWords(gen, lengths[n], None, None,
                                        CenterResults, 1)])

\* lines 1047-1052
StartRow(gen, start_word, start_direction) ==
    IF start_direction = ACROSS THEN gen.height \div 2
    ELSE Max(0, (gen.height - Len(start_word)) \div 2)

StartCol(gen, start_word, start_direction) ==
    IF start_direction = ACROSS
    THEN Max(0, (gen.width - Len(start_word)) \div 2)
    ELSE gen.width \div 2

\* lines 1079-1109: what one pass over grid.words can do.  The proposals of
\* the first word that has any are shuffled and the first five tried: any
\* proposal that passes is_valid_placement can be the one placed, and the
\* pass moves on to the next word only when five (or all) proposals fail.
\* The result is Some(grid after place_word), or None for found_word = False.
RECURSIVE PassOutcomes(_, _, _)
PassOutcomes(gen, g, k) ==
    IF k > Len(g.words) THEN {None}
    ELSE With(FindIntersectingWords(gen, g, g.words[k].text, g.words[k].row,
                                    g.words[k].col, g.words[k].direction),
         LAMBDA intersecting_words :
             LET passing == {n \in 1..Len(intersecting_words) :
                     IsValidPlacement(g, intersecting_words[n][1],
                         intersecting_words[n][4], intersecting_words[n][5],
                         intersecting_words[n][6],
                         Some(gen.available_answers))}
                 failing == (1..Len(intersecting_words)) \ passing
             IN  {Some(PlaceWord(g, intersecting_words[n][1],
                           intersecting_words[n][4], intersecting_words[n][5],
                           intersecting_words[n][6], intersecting_words[n][2],
                           intersecting_words[n][3])) : n \in passing}
                 \cup
                 (IF Cardinality(failing)
                       >= Min(TriedCandidates, Len(intersecting_words))
                  THEN PassOutcomes(gen, g, k + 1) ELSE {}))

\* lines 1118-1175: the acceptance test and the returned triple
MaxEmptySquares(gen) == (gen.width * gen.height) \div 4
MinWords(gen) == Max(MinWordsFloor, (gen.width + gen.height) \div 2)

\* an acceptance test without the invalid-sequence condition
IsValidIgnoringSequences(gen, g) ==
    LET empty_squares == CountEmptySquares(g)
        used_answers == GetUsedAnswers(g)
    IN  /\ empty_squares <= MaxEmptySquares(gen)
        /\ Cardinality(used_answers) = Len(g.words)
        /\ Len(g.words) >= MinWords(gen)
        /\ ~HasExcessiveConsecutiveEmptySquares(g)

IsValidCrossword(gen, g) ==
    LET empty_squares == CountEmptySquares(g)
        used_answers == GetUsedAnswers(g)
        invalid_sequences == CountInvalidSequences(g, gen.available_answers)
    IN  /\ empty_squares <= MaxEmptySquares(gen)
        /\ Cardinality(used_answers) = Len(g.words)
        /\ Len(g.words) >= MinWords(gen)
        /\ invalid_sequences = 0
        /\ ~HasExcessiveConsecutiveEmptySquares(g)

AttemptReturn(gen, g) ==
    IF IsValidCrossword(gen, g)
    THEN [grid |-> Some(g), is_valid |-> TRUE,
          quality_score |->
              CalculateAverageQuality(gen, g, Some(gen.available_answers),
                                      Some(gen.clue_lookup))]
    ELSE [grid |-> Some(g), is_valid |-> FALSE,
          quality_score |-> Fraction(0, 1)]

\* return None, False, 0.0
NoGrid == [grid |-> None, is_valid |-> FALSE, quality_score |-> Fraction(0, 1)]

\* lines 1039-1061: the attempt returns no grid when there is no center
\* word, or when the chosen start word is rejected at its start position
SeedCanFail(gen) ==
    With(CenterWords(gen), LAMBDA center_words :
        \/ center_words = <<>>
        \/ \E n \in 1..Len(center_words), start_direction \in Directions :
              ~IsValidPlacement(NewGrid(gen.width, gen.height),
                    center_words[n][1],
                    StartRow(gen, center_words[n][1], start_direction),
                    StartCol(gen, center_words[n][1], start_direction),
                    start_direction, Some(gen.available_answers)))

\* lines 1044-1065: the grids after the start word is placed, over
\* random.choice of the word and of its direction
SeedGrids(gen) ==
    With(CenterWords(gen), LAMBDA center_words :
        {PlaceWord(NewGrid(gen.width, gen.height), center_words[n][1],
                   StartRow(gen, center_words[n][1], d),
                   StartCol(gen, center_words[n][1], d), d,
                   center_words[n][2], center_words[n][3]) :
            <<n, d>> \in {nd \in (1..Len(center_words)) \X Directions :
                IsValidPlacement(NewGrid(gen.width, gen.height),
                    center_words[nd[1]][1],
                    StartRow(gen, center_words[nd[1]][1], nd[2]),
                    StartCol(gen, center_words[nd[1]][1], nd[2]),
                    nd[2], Some(gen.available_answers))}})

\* lines 1074-1116: the grids the expansion loop can end with, from the
\* grids it can hold after the given number of passes
RECURSIVE ExpandedGrids(_, _, _)
ExpandedGrids(gen, grids, passes) ==
    IF grids = {} THEN {}
    ELSE IF passes = ExpansionPasses THEN grids
    ELSE With([g \in grids |-> PassOutcomes(gen, g, 1)], LAMBDA outcomes :
             With({o[1] : o \in UNION {outcomes[g] \ {None} : g \in grids}},
                  LAMBDA expanded :
                      {g \in grids : None \in outcomes[g]}
                      \cup ExpandedGrids(gen, expanded, passes + 1)))

\* generate_single_crossword_attempt as one step: every triple it can return
AttemptResults(gen) ==
    With(SeedGrids(gen), LAMBDA seeds :
        (IF SeedCanFail(gen) THEN {NoGrid} ELSE {})
        \cup {AttemptReturn(gen, g) : g \in ExpandedGrids(gen, seeds, 0)})

----------------------------------------------------------------------------
(* Specification SpecGrid: a CrosswordGrid driven through its interface.  *)
(* Any word of GridWords is placed at any origin of the grid, in either   *)
(* direction, after is_valid_placement accepted it with the generator's   *)
(* available_answers.  SpecGridBasic is the same with the default         *)
(* available_answers = None.                                               *)

GridWords == {PET, ARE, TAN, ERA, ER, RAT}

\* the origins the callers pass: cells of the grid (the start cell of every
\* call site is computed from a range over the grid or from a placed word)
Origins(g) == (0..(g.height - 1)) \X (0..(g.width - 1))

\* clue and quality a caller passes to place_word for a word
ClueOf(gen, word) ==
    IF word \in DOMAIN gen.clue_lookup THEN gen.clue_lookup[word] ELSE ""
QualityOf(gen, word) == LookupQuality(gen.clue_list, word)

QueryIdle ==
    /\ cache = NoCache
    /\ returned = NoCall

BatchIdle ==
    /\ attempt_results = {}
    /\ count = 0
    /\ max_iterations = 0
    /\ attempt = 0
    /\ perfect_crosswords = <<>>
    /\ imperfect_crosswords = <<>>
    /\ constraint_violating_crosswords = <<>>
    /\ result = <<>>
    /\ log = <<>>

InitGrid ==
    /\ generator = Generator(MainCorpus, Width, Height)
    /\ grid = NewGrid(Width, Height)
    /\ pc = "grid"
    /\ iteration = 0
    /\ attempt_result = NoGrid
    /\ BatchIdle
    /\ QueryIdle

GridPlaceWord(available_answers) ==
    /\ pc = "grid"
    /\ Len(grid.words) < MaxPlacements
    /\ \E word \in GridWords, origin \in Origins(grid), direction \in Directions :
          /\ IsValidPlacement(grid, word, origin[1], origin[2], direction,
                              available_answers)
          /\ grid' = PlaceWord(grid, word, origin[1], origin[2], direction,
                               ClueOf(generator, word),
                               QualityOf(generator, word))
    /\ cache' = InvalidateCache(cache)
    /\ returned' = [op |-> "place_word", value |-> None, again |-> FALSE]
    /\ UNCHANGED <<generator, pc, iteration, attempt_result>>
    /\ UNCHANGED batchVars

PlaceValidated == GridPlaceWord(Some(generator.available_answers))
PlaceBasic == GridPlaceWord(None)

NextGrid == PlaceValidated
SpecGrid == InitGrid /\ [][NextGrid]_vars

NextGridBasic == PlaceBasic
SpecGridBasic == InitGrid /\ [][NextGridBasic]_vars

----------------------------------------------------------------------------
(* Specification SpecGridRect: a grid that is not square, wider than high *)
(* or higher than wide, filled by placements validated with or without    *)
(* available_answers.                                                      *)

RectDims == {<<Width, Height - 1>>, <<Width - 1, Height>>}

InitGridRect ==
    /\ \E dims \in RectDims :
          /\ generator = Generator(MainCorpus, dims[1], dims[2])
          /\ grid = NewGrid(dims[1], dims[2])
    /\ pc = "grid"
    /\ iteration = 0
    /\ attempt_result = NoGrid
    /\ BatchIdle
    /\ QueryIdle

NextGridRect ==
    \/ PlaceValidated
    \/ PlaceBasic

SpecGridRect == InitGridRect /\ [][NextGridRect]_vars

----------------------------------------------------------------------------
(* Specification SpecQueries: place_word calls interleaved with the       *)
(* derived queries of the grid and with the reconciler, each reading and  *)
(* writing the grid's cache.  returned holds the last call, what it       *)
(* returned and, for the reconciler, whether the call before it was the   *)
(* reconciler too.                                                         *)

QueryWords == {ER, RA, ERA}

\* id(available_answers) of the generator's set, which every caller passes
AnswersId == 1

InitQueries ==
    /\ generator = Generator(ClueCorpus, Width, Height)
    /\ grid = NewGrid(Width, Height)
    /\ pc = "grid"
    /\ iteration = 0
    /\ attempt_result = NoGrid
    /\ BatchIdle
    /\ QueryIdle

\* is_valid_placement, with or without available_answers, then place_word
PlaceQueryWord(max_placements) ==
    /\ pc = "grid"
    /\ Len(grid.words) < max_placements
    /\ \E word \in QueryWords, origin \in Origins(grid),
          direction \in Directions,
          available_answers \in {None, Some(generator.available_answers)} :
          /\ IsValidPlacement(grid, word, origin[1], origin[2], direction,
                              available_answers)
          /\ grid' = PlaceWord(grid, word, origin[1], origin[2], direction,
                               ClueOf(generator, word),
                               QualityOf(generator, word))
    /\ cache' = InvalidateCache(cache)
    /\ returned' = [op |-> "place_word", value |-> None, again |-> FALSE]
    /\ UNCHANGED <<generator, pc, iteration, attempt_result>>
    /\ UNCHANGED batchVars

QueryPlaceWord == PlaceQueryWord(MaxQueryPlacements)

\* a query: its value is returned and its cache kept
Query(op, r) ==
    /\ pc = "grid"
    /\ cache' = r.cache
    /\ returned' = [op |-> op, value |-> r.value, again |-> FALSE]
    /\ UNCHANGED <<generator, grid, pc, iteration, attempt_result>>
    /\ UNCHANGED batchVars

QueryEmptySquares ==
    Query("count_empty_squares", CachedCountEmptySquares(grid, cache))

QueryUsedAnswers ==
    Query("get_used_answers", CachedGetUsedAnswers(grid, cache))

QueryLetterSequences ==
    Query("get_all_letter_sequences", CachedGetAllLetterSequences(grid, cache))

QueryPlacedWordsSet ==
    Query("get_placed_words_set", CachedGetPlacedWordsSet(grid, cache))

QueryInvalidSequences ==
    Query("count_invalid_sequences",
          CachedCountInvalidSequences(grid, cache,
                                      generator.available_answers, AnswersId))

\* process_unintended_sequences(available_answers, clue_lookup, clue_list)
Reconcile ==
    /\ pc = "grid"
    /\ LET r == CachedProcessUnintendedSequences(grid, cache,
                     generator.available_answers, generator.clue_lookup,
                     generator.clue_list)
       IN  /\ grid' = r.grid
           /\ cache' = r.cache
           /\ returned' = [op |-> "process_unintended_sequences",
                           value |-> r.value,
                           updated_words |-> r.updated_words,
                           again |-> returned.op = "process_unintended_sequences"]
    /\ UNCHANGED <<generator, pc, iteration, attempt_result>>
    /\ UNCHANGED batchVars

NextQueries ==
    \/ QueryPlaceWord
    \/ QueryEmptySquares
    \/ QueryUsedAnswers
    \/ QueryLetterSequences
    \/ QueryPlacedWordsSet
    \/ QueryInvalidSequences
    \/ Reconcile

SpecQueries == InitQueries /\ [][NextQueries]_vars

----------------------------------------------------------------------------
(* Specification SpecReconcile: place_word calls interleaved with the     *)
(* reconciler alone, on grids of up to MaxPlacements words.               *)

ReconcilePlaceWord == PlaceQueryWord(MaxPlacements)

NextReconcile ==
    \/ ReconcilePlaceWord
    \/ Reconcile

SpecReconcile == InitQueries /\ [][NextReconcile]_vars

----------------------------------------------------------------------------
(* Specification SpecAttempt: one generate_single_crossword_attempt, one  *)
(* step per placement.                                                     *)

InitAttempt ==
    /\ generator \in Generators
    /\ grid = NewGrid(generator.width, generator.height)
    /\ pc = "seed"
    /\ iteration = 0
    /\ attempt_result = NoGrid
    /\ BatchIdle
    /\ QueryIdle

\* lines 1039-1042 and 1054-1061: return None, False, 0.0
SeedFails ==
    /\ pc = "seed"
    /\ SeedCanFail(generator)
    /\ attempt_result' = NoGrid
    /\ pc' = "returned"
    /\ UNCHANGED <<generator, grid, iteration>>
    /\ UNCHANGED batchVars
    /\ UNCHANGED queryVars

\* lines 1044-1065: random.choice of the start word and of its direction
SeedPlaced ==
    /\ pc = "seed"
    /\ grid' \in SeedGrids(generator)
    /\ pc' = "expand"
    /\ UNCHANGED <<generator, iteration, attempt_result>>
    /\ UNCHANGED batchVars
    /\ UNCHANGED queryVars

\* a pass that places a word and is not counted
ExpandPlacedUncounted ==
    /\ pc = "expand"
    /\ iteration < ExpansionPasses
    /\ \E o \in PassOutcomes(generator, grid, 1) :
          /\ o # None
          /\ grid' = o[1]
    /\ UNCHANGED <<generator, pc, iteration, attempt_result>>
    /\ UNCHANGED batchVars
    /\ UNCHANGED queryVars

\* one pass of "for iteration in range(50)" that places a word
ExpandPlaced ==
    /\ pc = "expand"
    /\ iteration < ExpansionPasses
    /\ \E o \in PassOutcomes(generator, grid, 1) :
          /\ o # None
          /\ grid' = o[1]
    /\ iteration' = iteration + 1
    /\ UNCHANGED <<generator, pc, attempt_result>>
    /\ UNCHANGED batchVars
    /\ UNCHANGED queryVars

\* a pass that finds nothing (break), or the pass budget is used up
ExpandEnds ==
    /\ pc = "expand"
    /\ \/ iteration = ExpansionPasses
       \/ /\ iteration < ExpansionPasses
          /\ None \in PassOutcomes(generator, grid, 1)
    /\ pc' = "accept"
    /\ UNCHANGED <<generator, grid, iteration, attempt_result>>
    /\ UNCHANGED batchVars
    /\ UNCHANGED queryVars

\* lines 1118-1175
Accept ==
    /\ pc = "accept"
    /\ attempt_result' = AttemptReturn(generator, grid)
    /\ pc' = "returned"
    /\ UNCHANGED <<generator, grid, iteration>>
    /\ UNCHANGED batchVars
    /\ UNCHANGED queryVars

NextAttempt ==
    \/ SeedFails
    \/ SeedPlaced
    \/ ExpandPlaced
    \/ ExpandEnds
    \/ Accept

SpecAttempt == InitAttempt /\ [][NextAttempt]_vars

----------------------------------------------------------------------------
(* Specification SpecSearch: one call of find_intersecting_words for a    *)
(* placed word of a grid that an attempt can hold, after the start word   *)
(* and after any number of expansion passes up to MaxSearchWords words.    *)

MaxSearchWords == 8

\* a search that places its first proposal
GridWithFirstProposal(g, intersecting) ==
    IF intersecting = <<>> THEN g
    ELSE PlaceWord(g, intersecting[1][1], intersecting[1][4],
                   intersecting[1][5], intersecting[1][6],
                   intersecting[1][2], intersecting[1][3])

\* lines 795-919 read grid.grid, grid.width and grid.height and call
\* get_used_answers and is_valid_placement; nothing in them writes a cell
\* or the word list
GridAfterSearching(g, intersecting) == g

InitSearch ==
    /\ generator \in Generators \cup {Generator(FanCorpus, LargeWidth, LargeHeight)}
    /\ grid = NewGrid(generator.width, generator.height)
    /\ pc = "seed"
    /\ iteration = 0
    /\ attempt_result = NoGrid
    /\ BatchIdle
    /\ QueryIdle

\* an expansion pass on a grid of fewer than MaxSearchWords words
SearchExpand ==
    /\ Len(grid.words) < MaxSearchWords
    /\ ExpandPlaced

\* find_intersecting_words(grid, existing_word.text, existing_word.row,
\* existing_word.col, existing_word.direction), as line 1082 calls it
Search ==
    /\ pc = "expand"
    /\ \E k \in 1..Len(grid.words) :
          LET intersecting ==
                  FindIntersectingWords(generator, grid, grid.words[k].text,
                                        grid.words[k].row, grid.words[k].col,
                                        grid.words[k].direction)
          IN  /\ returned' = [op |-> "find_intersecting_words",
                              word |-> grid.words[k], before |-> grid,
                              value |-> Some(intersecting), again |-> FALSE]
              /\ grid' = GridAfterSearching(grid, intersecting)
    /\ cache' = CachedGetUsedAnswers(grid, cache).cache
    /\ pc' = "returned"
    /\ UNCHANGED <<generator, iteration, attempt_result>>
    /\ UNCHANGED batchVars

NextSearch ==
    \/ SeedPlaced
    \/ SearchExpand
    \/ Search

SpecSearch == InitSearch /\ [][NextSearch]_vars

----------------------------------------------------------------------------
(* Specification SpecLookup: one call of get_best_quality_words on a      *)
(* generator, with arguments drawn from small sets.                        *)

\* the patterns of a length: an answer of that length with any of its
\* letters replaced by the wildcard
Patterns(gen, length) ==
    {[i \in 1..length |-> IF i \in known THEN a[i] ELSE "."] :
        a \in {b \in gen.available_answers : Len(b) = length},
        known \in SUBSET (1..length)}

\* the used_answers of a call: none given, none used, or one answer used
UsedAnswerSets(gen) ==
    {None, Some({})} \cup {Some({a}) : a \in gen.available_answers}

InitLookup ==
    /\ generator \in Generators
    /\ grid = NewGrid(generator.width, generator.height)
    /\ pc = "lookup"
    /\ iteration = 0
    /\ attempt_result = NoGrid
    /\ BatchIdle
    /\ QueryIdle

Lookup ==
    /\ pc = "lookup"
    /\ \E length \in 1..Max(generator.width, generator.height),
          max_results \in 0..MaxResults,
          target_quality \in {1, 2},
          used_answers \in UsedAnswerSets(generator) :
          \E pattern \in {None} \cup
                          {Some(p) : p \in Patterns(generator, length)} :
              returned' =
                  [op |-> "get_best_quality_words", length |-> length,
                   pattern |-> pattern, used_answers |-> used_answers,
                   max_results |-> max_results,
                   target_quality |-> target_quality,
                   value |-> Some(GetBestQualityWords(generator, length,
                                      pattern, used_answers, max_results,
                                      target_quality)),
                   again |-> FALSE]
    /\ pc' = "returned"
    /\ UNCHANGED <<generator, grid, iteration, attempt_result, cache>>
    /\ UNCHANGED batchVars

NextLookup == Lookup

SpecLookup == InitLookup /\ [][NextLookup]_vars

----------------------------------------------------------------------------
(* Specification Spec: generate_crosswords_batch, one step per iteration  *)
(* of its loop.  An attempt is one step: it returns any of the triples of *)
(* AttemptResults.  Of each grid the batch keeps (grid_copy), the model   *)
(* keeps what the orchestrator and its callers read from it: whether it   *)
(* passed the acceptance test, its quality score, its penalty, its number *)
(* of invalid sequences, and the attempt that built it.                    *)

\* the result triple of an attempt, as the batch sees it
Puzzle(gen, r) ==
    IF r.grid = None THEN [grid |-> None, is_valid |-> FALSE]
    ELSE [grid |-> Some("grid"), is_valid |-> r.is_valid,
          quality_score |-> r.quality_score,
          constraint_score |-> ScoreConstraintViolatingPuzzle(gen, r.grid[1]),
          invalid_sequences |->
              CountInvalidSequences(r.grid[1], gen.available_answers)]

\* every result an attempt of the generator can return
Puzzles(gen) == {Puzzle(gen, r) : r \in AttemptResults(gen)}

\* grid_copy = CrosswordGrid(...): a new object, told apart by its attempt
GridCopy(puzzle, id) ==
    [id |-> id, is_valid |-> puzzle.is_valid,
     quality_score |-> puzzle.quality_score,
     constraint_score |-> puzzle.constraint_score,
     invalid_sequences |-> puzzle.invalid_sequences]

\* list.sort(key=lambda x: x[1]) is stable: an entry goes behind the
\* entries whose score is not larger
RECURSIVE InsertByScore(_, _)
InsertByScore(sorted, entry) ==
    IF sorted = <<>> THEN <<entry>>
    ELSE IF FracLess(entry[2], Head(sorted)[2]) THEN <<entry>> \o sorted
    ELSE <<Head(sorted)>> \o InsertByScore(Tail(sorted), entry)

RECURSIVE SortFrom(_, _, _)
SortFrom(list, i, sorted) ==
    IF i > Len(list) THEN sorted
    ELSE SortFrom(list, i + 1, InsertByScore(sorted, list[i]))

\* a list left in discovery order
LeftUnsorted(list) == list

SortByScore(list) == With(list, LAMBDA v : SortFrom(v, 1, <<>>))

\* a classification that takes every accepted grid for a perfect one
AnyScoreIsPerfect(quality_score) == quality_score.den >= 1

\* line 1239: quality_score == 1.0
IsPerfectScore(quality_score) == quality_score.num = quality_score.den

\* a loop that never stops early
NeverEnoughPerfect(perfect, requested) == Len(perfect) > Len(perfect)

\* line 1264: len(perfect_crosswords) >= count
EnoughPerfect(perfect, requested) == Len(perfect) >= requested

\* lines 1251-1255: keep only the imperfect puzzles still needed
PruneImperfect(imperfect, perfect, requested) ==
    IF Len(imperfect) > requested - Len(perfect)
    THEN Prefix(imperfect, requested - Len(perfect))
    ELSE imperfect

\* a pruning that keeps one constraint-violating puzzle too few
MaxInvalidNeededOffByOne(requested, perfect, imperfect) ==
    requested - Len(perfect) - Len(imperfect) - 1

\* lines 1287-1289
MaxInvalidNeeded(requested, perfect, imperfect) ==
    requested - Len(perfect) - Len(imperfect)

\* a pruning that keeps the entries at the end of the sorted list
PruneKeepingLast(sorted, max_invalid_needed) ==
    IF Len(sorted) > max_invalid_needed
    THEN SubSeq(sorted, Len(sorted) - Len(Prefix(sorted, max_invalid_needed)) + 1,
                Len(sorted))
    ELSE sorted

\* lines 1290-1293: keep only the best constraint-violating puzzles
PruneConstraintViolating(sorted, max_invalid_needed) ==
    IF Len(sorted) > max_invalid_needed
    THEN Prefix(sorted, max_invalid_needed)
    ELSE sorted

Init ==
    /\ generator \in Generators
    /\ attempt_results = Puzzles(generator)
    /\ count \in 0..MaxCount
    /\ max_iterations \in 0..MaxIterations
    /\ attempt = 0
    /\ perfect_crosswords = <<>>
    /\ imperfect_crosswords = <<>>
    /\ constraint_violating_crosswords = <<>>
    /\ result = <<>>
    /\ log = <<>>
    /\ pc = "loop"
    /\ grid = NewGrid(generator.width, generator.height)
    /\ iteration = 0
    /\ attempt_result = NoGrid
    /\ QueryIdle

\* a loop that breaks when an attempt returns no grid
AttemptNoGridAborts ==
    /\ pc = "loop"
    /\ attempt < max_iterations
    /\ \E puzzle \in attempt_results : puzzle.grid = None
    /\ attempt' = attempt + 1
    /\ log' = Append(log, [attempt |-> attempt, tier |-> "none"])
    /\ pc' = "break"
    /\ UNCHANGED <<generator, attempt_results, count, max_iterations,
                   perfect_crosswords, imperfect_crosswords,
                   constraint_violating_crosswords, result>>
    /\ UNCHANGED <<grid, iteration, attempt_result>>
    /\ UNCHANGED queryVars

\* lines 1227-1228: grid is None, continue
AttemptNoGrid ==
    /\ pc = "loop"
    /\ attempt < max_iterations
    /\ \E puzzle \in attempt_results : puzzle.grid = None
    /\ attempt' = attempt + 1
    /\ log' = Append(log, [attempt |-> attempt, tier |-> "none"])
    /\ UNCHANGED <<generator, attempt_results, pc, count, max_iterations,
                   perfect_crosswords, imperfect_crosswords,
                   constraint_violating_crosswords, result>>
    /\ UNCHANGED <<grid, iteration, attempt_result>>
    /\ UNCHANGED queryVars

\* lines 1230-1247 and 1263-1268, quality_score == 1.0
AttemptPerfect ==
    /\ pc = "loop"
    /\ attempt < max_iterations
    /\ \E puzzle \in attempt_results :
          /\ puzzle.grid # None
          /\ puzzle.is_valid
          /\ IsPerfectScore(puzzle.quality_score)
          /\ perfect_crosswords' =
                 Append(perfect_crosswords, GridCopy(puzzle, attempt))
          /\ log' = Append(log, [attempt |-> attempt, tier |-> "perfect",
                                 grid |-> GridCopy(puzzle, attempt)])
    /\ attempt' = attempt + 1
    /\ pc' = IF EnoughPerfect(perfect_crosswords', count)
             THEN "break" ELSE "loop"
    /\ UNCHANGED <<generator, attempt_results, count, max_iterations,
                   imperfect_crosswords, constraint_violating_crosswords,
                   result>>
    /\ UNCHANGED <<grid, iteration, attempt_result>>
    /\ UNCHANGED queryVars

\* lines 1230-1238 and 1248-1268, quality_score != 1.0
AttemptImperfect ==
    /\ pc = "loop"
    /\ attempt < max_iterations
    /\ \E puzzle \in attempt_results :
          /\ puzzle.grid # None
          /\ puzzle.is_valid
          /\ ~IsPerfectScore(puzzle.quality_score)
          /\ imperfect_crosswords' =
                 PruneImperfect(Append(imperfect_crosswords,
                                       GridCopy(puzzle, attempt)),
                                perfect_crosswords, count)
          /\ log' = Append(log, [attempt |-> attempt, tier |-> "imperfect",
                                 grid |-> GridCopy(puzzle, attempt)])
    /\ attempt' = attempt + 1
    /\ pc' = IF EnoughPerfect(perfect_crosswords, count)
             THEN "break" ELSE "loop"
    /\ UNCHANGED <<generator, attempt_results, count, max_iterations,
                   perfect_crosswords, constraint_violating_crosswords,
                   result>>
    /\ UNCHANGED <<grid, iteration, attempt_result>>
    /\ UNCHANGED queryVars

\* lines 1269-1293
AttemptConstraintViolating ==
    /\ pc = "loop"
    /\ attempt < max_iterations
    /\ \E puzzle \in attempt_results :
          /\ puzzle.grid # None
          /\ ~puzzle.is_valid
          /\ constraint_violating_crosswords' =
                 PruneConstraintViolating(
                     SortByScore(Append(constraint_violating_crosswords,
                                        <<GridCopy(puzzle, attempt),
                                          puzzle.constraint_score>>)),
                     MaxInvalidNeeded(count, perfect_crosswords,
                                      imperfect_crosswords))
          /\ log' = Append(log, [attempt |-> attempt,
                                 tier |-> "constraint_violating",
                                 grid |-> GridCopy(puzzle, attempt)])
    /\ attempt' = attempt + 1
    /\ UNCHANGED <<generator, attempt_results, pc, count, max_iterations,
                   perfect_crosswords, imperfect_crosswords, result>>
    /\ UNCHANGED <<grid, iteration, attempt_result>>
    /\ UNCHANGED queryVars

\* lines 1304-1332: the returned list
FinalResult(requested, perfect, imperfect, constraint_violating) ==
    LET perfect_to_add == Min(Len(perfect), requested)
        remaining_slots == requested - perfect_to_add
        imperfect_to_add ==
            IF remaining_slots > 0 THEN Min(Len(imperfect), remaining_slots)
            ELSE 0
        remaining_after == remaining_slots - imperfect_to_add
        constraint_violating_to_add ==
            IF remaining_after > 0 /\ constraint_violating # <<>>
            THEN Min(Len(constraint_violating), remaining_after)
            ELSE 0
        chosen == Prefix(constraint_violating, constraint_violating_to_add)
    IN  Prefix(perfect, perfect_to_add)
        \o Prefix(imperfect, imperfect_to_add)
        \o [n \in 1..Len(chosen) |-> chosen[n][1]]

\* the loop is over (range exhausted, or break): lines 1301-1349
ReturnResult ==
    /\ \/ pc = "break"
       \/ pc = "loop" /\ attempt >= max_iterations
    /\ result' = FinalResult(count, perfect_crosswords, imperfect_crosswords,
                             constraint_violating_crosswords)
    /\ pc' = "returned"
    /\ UNCHANGED <<generator, attempt_results, count, max_iterations, attempt,
                   perfect_crosswords, imperfect_crosswords,
                   constraint_violating_crosswords, log>>
    /\ UNCHANGED <<grid, iteration, attempt_result>>
    /\ UNCHANGED queryVars

Next ==
    \/ AttemptNoGrid
    \/ AttemptPerfect
    \/ AttemptImperfect
    \/ AttemptConstraintViolating
    \/ ReturnResult

Spec == Init /\ [][Next]_vars

----------------------------------------------------------------------------
(* Properties of generate_crosswords_batch (specification Spec)           *)

One == Fraction(1, 1)

\* the tier a returned grid belongs to, read off the grid itself
TierOf(g) ==
    IF ~g.is_valid THEN "constraint_violating"
    ELSE IF FracEq(g.quality_score, One) THEN "perfect"
    ELSE "imperfect"

TierRank(g) ==
    CASE TierOf(g) = "perfect" -> 1
      [] TierOf(g) = "imperfect" -> 2
      [] TierOf(g) = "constraint_violating" -> 3

\* the attempts of the run that produced a grid
Productive == {n \in 1..Len(log) : log[n].tier # "none"}

\* C1: in the returned list every Perfect grid precedes every Imperfect
\* grid, which precedes every Constraint-violating grid; the Imperfect
\* grids are in discovery order and the penalties of the
\* Constraint-violating grids are non-decreasing.
C1_OutputOrdering ==
    pc = "returned" =>
        \A i \in 1..Len(result) : \A j \in 1..Len(result) :
            i < j =>
                /\ TierRank(result[i]) <= TierRank(result[j])
                /\ (TierOf(result[i]) = "imperfect"
                    /\ TierOf(result[j]) = "imperfect")
                       => result[i].id < result[j].id
                /\ (TierOf(result[i]) = "constraint_violating"
                    /\ TierOf(result[j]) = "constraint_violating")
                       => ~FracLess(result[j].constraint_score,
                                    result[i].constraint_score)

\* C1 witness: a returned list with an Imperfect grid followed by two
\* Constraint-violating grids, the better of which was found later
C1_Witness ==
    /\ pc = "returned"
    /\ Len(result) = 3
    /\ TierOf(result[1]) = "imperfect"
    /\ TierOf(result[2]) = "constraint_violating"
    /\ TierOf(result[3]) = "constraint_violating"
    /\ result[2].id > result[3].id
    /\ FracLess(result[2].constraint_score, result[3].constraint_score)

\* C2: every attempt that returns a grid is added to exactly one tier:
\* Perfect iff it succeeded with quality 1.0, Imperfect iff it succeeded
\* with quality above 1.0, Constraint-violating iff it failed acceptance;
\* a grid with an incidental run outside the eligible answers is
\* Constraint-violating.  The tier lists hold grids of their tier only.
C2_TierClassification ==
    /\ \A n \in Productive :
          LET g == log[n].grid
          IN  /\ log[n].tier \in {"perfect", "imperfect",
                                  "constraint_violating"}
              /\ log[n].tier = "perfect"
                     <=> (g.is_valid /\ FracEq(g.quality_score, One))
              /\ log[n].tier = "imperfect"
                     <=> (g.is_valid /\ FracLess(One, g.quality_score))
              /\ log[n].tier = "constraint_violating" <=> ~g.is_valid
              /\ g.invalid_sequences > 0
                     => log[n].tier = "constraint_violating"
    /\ \A n \in 1..Len(perfect_crosswords) :
          /\ TierOf(perfect_crosswords[n]) = "perfect"
          /\ perfect_crosswords[n].invalid_sequences = 0
    /\ \A n \in 1..Len(imperfect_crosswords) :
          /\ TierOf(imperfect_crosswords[n]) = "imperfect"
          /\ FracLess(One, imperfect_crosswords[n].quality_score)
          /\ imperfect_crosswords[n].invalid_sequences = 0
    /\ \A n \in 1..Len(constraint_violating_crosswords) :
          TierOf(constraint_violating_crosswords[n][1])
              = "constraint_violating"

\* C2 witness: a run that classified a grid into each tier, the
\* Constraint-violating one holding an incidental run outside the eligible
\* answers
C2_Witness ==
    /\ \E n \in Productive : log[n].tier = "perfect"
    /\ \E n \in Productive : log[n].tier = "imperfect"
    /\ \E n \in Productive :
          /\ log[n].tier = "constraint_violating"
          /\ log[n].grid.invalid_sequences > 0

\* C3: for count >= 1 the loop runs at most max_iterations attempts and
\* runs no attempt once the Perfect tier holds count grids.
C3_EarlyStop ==
    /\ [](attempt <= max_iterations /\ Len(log) = attempt)
    /\ [][(count >= 1 /\ Len(perfect_crosswords) >= count)
              => (attempt' = attempt /\ log' = log)]_vars

\* C3 witness: the batch returned with count Perfect grids and budget left
C3_Witness ==
    /\ pc = "returned"
    /\ count >= 1
    /\ Len(perfect_crosswords) = count
    /\ attempt < max_iterations

\* C4: the number of grids returned is min(count, attempts that produced a
\* grid).
C4_OutputSize ==
    pc = "returned" =>
        Len(result) = Min(count, Cardinality(Productive))

\* C4 witness: more productive attempts than requested, both lower tiers
\* pruned on the way, and the list is full with a Constraint-violating grid
\* in its last slot
C4_Witness ==
    /\ pc = "returned"
    /\ count = 3
    /\ Cardinality(Productive) = 5
    /\ Len(result) = 3
    /\ TierOf(result[1]) = "perfect"
    /\ TierOf(result[2]) = "imperfect"
    /\ TierOf(result[3]) = "constraint_violating"

----------------------------------------------------------------------------
(* The grid, read cell by cell                                             *)

InGrid(g, row, col) ==
    row \in 0..(g.height - 1) /\ col \in 0..(g.width - 1)

EmptyOrOffGrid(g, row, col) ==
    InGrid(g, row, col) => Cell(g, row, col) = "."

\* the i-th cell (from 0) of a span with the given origin and direction
SpanRow(row, direction, i) == IF direction = ACROSS THEN row ELSE row + i
SpanCol(col, direction, i) == IF direction = ACROSS THEN col + i ELSE col

\* rule 1: the word fits inside the grid
FitsInside(g, word, row, col, direction) ==
    \A i \in 0..(Len(word) - 1) :
        InGrid(g, SpanRow(row, direction, i), SpanCol(col, direction, i))

\* rule 2: every covered cell is empty or holds the word's letter
LettersCompatible(g, word, row, col, direction) ==
    \A i \in 0..(Len(word) - 1) :
        Cell(g, SpanRow(row, direction, i), SpanCol(col, direction, i))
            \in {".", word[i + 1]}

\* rule 3: the cells before the start and after the end are empty or off-grid
EndsClear(g, word, row, col, direction) ==
    /\ EmptyOrOffGrid(g, SpanRow(row, direction, -1),
                         SpanCol(col, direction, -1))
    /\ EmptyOrOffGrid(g, SpanRow(row, direction, Len(word)),
                         SpanCol(col, direction, Len(word)))

\* the maximal runs of two or more letters: (text, row, col, direction)
MaximalRuns(g) ==
    {<<[i \in 1..x[4] |-> Cell(g, SpanRow(x[1], x[3], i - 1),
                                  SpanCol(x[2], x[3], i - 1))],
       x[1], x[2], x[3]>> :
        x \in {y \in (0..(g.height - 1)) \X (0..(g.width - 1)) \X Directions
                     \X (2..Max(g.width, g.height)) :
                /\ \A i \in 0..(y[4] - 1) :
                      /\ InGrid(g, SpanRow(y[1], y[3], i),
                                   SpanCol(y[2], y[3], i))
                      /\ Cell(g, SpanRow(y[1], y[3], i),
                                 SpanCol(y[2], y[3], i)) # "."
                /\ EmptyOrOffGrid(g, SpanRow(y[1], y[3], -1),
                                     SpanCol(y[2], y[3], -1))
                /\ EmptyOrOffGrid(g, SpanRow(y[1], y[3], y[4]),
                                     SpanCol(y[2], y[3], y[4]))}}

PlacedWords(g) ==
    {<<g.words[k].text, g.words[k].row, g.words[k].col, g.words[k].direction>> :
        k \in 1..Len(g.words)}

\* the incidental sequences: maximal runs that are no placed word
IncidentalRuns(g) == MaximalRuns(g) \ PlacedWords(g)

\* the words a caller may offer to the validator
CandidateWords == GridWords \cup {RA, PAT, TAD, <<"A">>}

----------------------------------------------------------------------------
(* Properties of generate_single_crossword_attempt (SpecAttempt)          *)

EmptyCells(g) == {p \in Origins(g) : Cell(g, p[1], p[2]) = "."}

\* some row or column has more than max(width, height) // 2 empty cells
\* in a row
LongEmptyRun(g) ==
    \E row \in 0..(g.height - 1), col \in 0..(g.width - 1),
       direction \in Directions :
        \A i \in 0..(Max(g.width, g.height) \div 2) :
            /\ InGrid(g, SpanRow(row, direction, i),
                         SpanCol(col, direction, i))
            /\ Cell(g, SpanRow(row, direction, i),
                       SpanCol(col, direction, i)) = "."

\* the five acceptance conditions on the raw grid
FiveConditions(gen, g) ==
    /\ 4 * Cardinality(EmptyCells(g)) <= gen.width * gen.height
    /\ \A i \in 1..Len(g.words) : \A j \in 1..Len(g.words) :
           i # j => g.words[i].text # g.words[j].text
    /\ Len(g.words) >= 6
    /\ 2 * Len(g.words) + 1 >= gen.width + gen.height
    /\ CountInvalidSequences(g, gen.available_answers) = 0
    /\ ~LongEmptyRun(g)

\* C5: an attempt that returns a grid reports success exactly when the
\* five acceptance conditions hold on the raw grid; an accepted grid has
\* no invalid sequence, and no incidental run outside the eligible answers.
C5_Acceptance ==
    (pc = "returned" /\ attempt_result.grid # None) =>
        /\ attempt_result.grid = Some(grid)
        /\ attempt_result.is_valid <=> FiveConditions(generator, grid)
        /\ attempt_result.is_valid =>
              /\ CountInvalidSequences(grid, generator.available_answers) = 0
              /\ \A s \in IncidentalRuns(grid) :
                     s[1] \in generator.available_answers

\* C5 witness: an attempt returned a grid that meets four conditions and
\* has an invalid sequence, and reported failure
C5_Witness ==
    /\ pc = "returned"
    /\ attempt_result.grid # None
    /\ ~attempt_result.is_valid
    /\ 4 * Cardinality(EmptyCells(grid)) <= generator.width * generator.height
    /\ Cardinality({grid.words[k].text : k \in 1..Len(grid.words)})
           = Len(grid.words)
    /\ Len(grid.words) >= 6
    /\ ~LongEmptyRun(grid)
    /\ CountInvalidSequences(grid, generator.available_answers) > 0

----------------------------------------------------------------------------
(* Properties of CrosswordGrid (SpecGridBasic, SpecGrid)                   *)

\* C6: without available_answers, is_valid_placement at an in-grid origin
\* accepts exactly the words that fit inside the grid, agree with the
\* letters already in the covered cells, and have empty or off-grid cells
\* before the start and after the end.
C6_BasicRules ==
    \A word \in CandidateWords, origin \in Origins(grid),
       direction \in Directions :
        IsValidPlacement(grid, word, origin[1], origin[2], direction, None)
            <=> /\ FitsInside(grid, word, origin[1], origin[2], direction)
                /\ LettersCompatible(grid, word, origin[1], origin[2],
                                     direction)
                /\ EndsClear(grid, word, origin[1], origin[2], direction)

\* C6 witness: a word abutting an ACROSS word on its row, with no letter
\* conflict, is rejected, and a crossing on a shared letter is accepted
C6_Witness ==
    /\ \E word \in CandidateWords, origin \in Origins(grid) :
          /\ \E k \in 1..Len(grid.words) :
                /\ grid.words[k].direction = ACROSS
                /\ grid.words[k].row = origin[1]
                /\ grid.words[k].col + Len(grid.words[k].text) = origin[2]
          /\ FitsInside(grid, word, origin[1], origin[2], ACROSS)
          /\ LettersCompatible(grid, word, origin[1], origin[2], ACROSS)
          /\ ~IsValidPlacement(grid, word, origin[1], origin[2], ACROSS, None)
    /\ \E word \in CandidateWords, origin \in Origins(grid) :
          /\ IsValidPlacement(grid, word, origin[1], origin[2], DOWN, None)
          /\ \E i \in 0..(Len(word) - 1) :
                Cell(grid, origin[1] + i, origin[2]) = word[i + 1]

\* C7: after placements accepted with available_answers, every incidental
\* sequence of 3 or more letters is one of available_answers.
C7_IncidentalRunsEligible ==
    \A s \in IncidentalRuns(grid) :
        Len(s[1]) >= 3 => s[1] \in generator.available_answers

\* C7 witness: a grid with an incidental sequence of 3 letters
C7_Witness ==
    \E s \in IncidentalRuns(grid) : Len(s[1]) >= 3

\* the naive corpus check: place the word on a copy, rescan, and reject iff
\* a sequence of 3+ letters the placement created or extended is neither a
\* placed word nor one of the answers
NaiveRejects(g, word, row, col, direction, answers) ==
    LET copy == PlaceWord(g, word, row, col, direction, "", 2)
    IN  \E s \in MaximalRuns(copy) \ MaximalRuns(g) :
            /\ Len(s[1]) >= 3
            /\ s \notin PlacedWords(copy)
            /\ s[1] \notin answers

\* C8: on every grid reached by validated placements, and for every
\* candidate, is_valid_placement with available_answers decides as the
\* three basic rules followed by the naive corpus check.
C8_OptimizedEqualsNaive ==
    \A word \in CandidateWords, origin \in Origins(grid),
       direction \in Directions :
        IsValidPlacement(grid, word, origin[1], origin[2], direction,
                         Some(generator.available_answers))
            <=> /\ FitsInside(grid, word, origin[1], origin[2], direction)
                /\ LettersCompatible(grid, word, origin[1], origin[2],
                                     direction)
                /\ EndsClear(grid, word, origin[1], origin[2], direction)
                /\ ~NaiveRejects(grid, word, origin[1], origin[2], direction,
                                 generator.available_answers)

\* C8 witness: one candidate passes the basic rules and is rejected by the
\* corpus check, another is accepted and creates an incidental sequence
C8_Witness ==
    /\ \E word \in CandidateWords, origin \in Origins(grid),
          direction \in Directions :
          /\ IsValidPlacement(grid, word, origin[1], origin[2], direction,
                              None)
          /\ NaiveRejects(grid, word, origin[1], origin[2], direction,
                          generator.available_answers)
          /\ ~IsValidPlacement(grid, word, origin[1], origin[2], direction,
                               Some(generator.available_answers))
    /\ \E word \in CandidateWords, origin \in Origins(grid),
          direction \in Directions :
          /\ IsValidPlacement(grid, word, origin[1], origin[2], direction,
                              Some(generator.available_answers))
          /\ \E s \in IncidentalRuns(
                    PlaceWord(grid, word, origin[1], origin[2], direction,
                              "", 2)) \ IncidentalRuns(grid) :
                Len(s[1]) >= 3

\* C9: every placed word's span lies inside the grid and still holds the
\* word's letters, and every non-empty cell is covered by a placed word.
C9_GridReflectsWords ==
    /\ \A k \in 1..Len(grid.words) :
          LET w == grid.words[k]
          IN  \A i \in 0..(Len(w.text) - 1) :
                 /\ InGrid(grid, SpanRow(w.row, w.direction, i),
                                 SpanCol(w.col, w.direction, i))
                 /\ Cell(grid, SpanRow(w.row, w.direction, i),
                               SpanCol(w.col, w.direction, i)) = w.text[i + 1]
    /\ \A p \in Origins(grid) :
          Cell(grid, p[1], p[2]) # "." =>
              \E k \in 1..Len(grid.words) :
                  \E i \in 0..(Len(grid.words[k].text) - 1) :
                      /\ SpanRow(grid.words[k].row,
                                 grid.words[k].direction, i) = p[1]
                      /\ SpanCol(grid.words[k].col,
                                 grid.words[k].direction, i) = p[2]

\* C9 witness: three words placed, two of them crossing on a shared cell
C9_Witness ==
    /\ Len(grid.words) = 3
    /\ \E j \in 1..3, k \in 1..3 :
          /\ grid.words[j].direction = ACROSS
          /\ grid.words[k].direction = DOWN
          /\ grid.words[k].col >= grid.words[j].col
          /\ grid.words[k].col < grid.words[j].col + Len(grid.words[j].text)
          /\ grid.words[j].row >= grid.words[k].row
          /\ grid.words[j].row < grid.words[k].row + Len(grid.words[k].text)

\* C10: no two entries of the placed-word list share (text, row, col,
\* direction).
C10_NoDuplicatePlacedWords ==
    \A j \in 1..Len(grid.words) : \A k \in 1..Len(grid.words) :
        j # k =>
            <<grid.words[j].text, grid.words[j].row, grid.words[j].col,
              grid.words[j].direction>>
            # <<grid.words[k].text, grid.words[k].row, grid.words[k].col,
                grid.words[k].direction>>

----------------------------------------------------------------------------
(* Placement symmetry (specification SpecGridRect)                         *)

\* the transposed grid: cells transposed, width and height swapped, every
\* placed word's row and col swapped and its direction flipped
Flip(direction) == IF direction = ACROSS THEN DOWN ELSE ACROSS

Transpose(g) ==
    [width |-> g.height, height |-> g.width,
     grid |-> [r \in 1..g.width |-> [c \in 1..g.height |-> g.grid[c][r]]],
     words |-> [k \in 1..Len(g.words) |->
                  [g.words[k] EXCEPT !.row = g.words[k].col,
                                     !.col = g.words[k].row,
                                     !.direction = Flip(g.words[k].direction)]]]

EligibleOrNot == {None, Some(generator.available_answers)}

\* C11: is_valid_placement(W, r, c, ACROSS) on the grid, with or without the
\* eligible-answer set, decides as is_valid_placement(W, c, r, DOWN) does on
\* the transposed grid.
C11_PlacementSymmetry ==
    \A word \in CandidateWords, origin \in Origins(grid),
       available_answers \in EligibleOrNot :
        IsValidPlacement(grid, word, origin[1], origin[2], ACROSS,
                         available_answers)
        = IsValidPlacement(Transpose(grid), word, origin[2], origin[1], DOWN,
                           available_answers)

\* C11 witness: a grid that is not square and holds two words, where one
\* ACROSS placement that creates a crossing sequence is accepted with the
\* eligible set, and another is accepted without it and rejected with it.
C11_Witness ==
    /\ grid.width # grid.height
    /\ Len(grid.words) >= 2
    /\ \E word \in CandidateWords, origin \in Origins(grid) :
          /\ IsValidPlacement(grid, word, origin[1], origin[2], ACROSS,
                              Some(generator.available_answers))
          /\ GetNewSequencesFromPlacement(grid, word, origin[1], origin[2],
                                          ACROSS) # <<>>
    /\ \E word \in CandidateWords, origin \in Origins(grid) :
          /\ IsValidPlacement(grid, word, origin[1], origin[2], ACROSS, None)
          /\ ~IsValidPlacement(grid, word, origin[1], origin[2], ACROSS,
                               Some(generator.available_answers))

----------------------------------------------------------------------------
(* Properties of the queries (specification SpecQueries) and of the       *)
(* reconciler (specifications SpecQueries and SpecReconcile)               *)

Reconciled == returned.op = "process_unintended_sequences"

\* C12: every query returns the value a computation from the current cells
\* and placed words returns, whatever was called before it.
C12_QueriesReturnFreshValues ==
    /\ returned.op = "count_empty_squares"
          => returned.value = Some(CountEmptySquares(grid))
    /\ returned.op = "get_used_answers"
          => returned.value = Some(GetUsedAnswers(grid))
    /\ returned.op = "get_all_letter_sequences"
          => returned.value = Some(GetAllLetterSequences(grid))
    /\ returned.op = "get_placed_words_set"
          => returned.value = Some(GetPlacedWordsSet(grid))
    /\ returned.op = "count_invalid_sequences"
          => returned.value =
                 Some(CountInvalidSequences(grid, generator.available_answers))

\* C13: the reconciler leaves the cells and the placed-word list as they
\* are, and run again on the same grid it returns the same list.
C13_ReconcilerIsPure ==
    [][Reconciled' =>
          /\ grid' = grid
          /\ returned'.again => returned'.value = returned.value]_vars

\* C13 witness: the reconciler has run twice in a row on a grid with placed
\* words, and the list it returned is not the placed-word list.
C13_Witness ==
    /\ Reconciled
    /\ returned.again
    /\ grid.words # <<>>
    /\ returned.value[1] # grid.words

\* the entries of a word list after the first n, as a set
Promoted(updated_words, n) ==
    {updated_words[k] : k \in (n + 1)..Len(updated_words)}

\* the corpus has a record with this answer and clue, and one with this
\* answer and quality
CarriesCorpusClue(gen, w) ==
    /\ \E n \in 1..Len(gen.clue_list) :
          gen.clue_list[n][2] = w.text /\ gen.clue_list[n][1] = w.clue
    /\ \E n \in 1..Len(gen.clue_list) :
          gen.clue_list[n][2] = w.text /\ gen.clue_list[n][3] = w.quality

\* C14: before subsumed words are dropped, the list is the placed-word list
\* followed by exactly one word for each incidental sequence of 3 or more
\* letters that is an eligible answer, at the sequence's row, column and
\* direction and with a corpus clue and quality of that answer.
C14_PromotedSequences ==
    Reconciled =>
        LET updated_words == returned.updated_words
            n == Len(grid.words)
            tail == Promoted(updated_words, n)
        IN  /\ Len(updated_words) >= n
            /\ SubSeq(updated_words, 1, n) = grid.words
            /\ {<<w.text, w.row, w.col, w.direction>> : w \in tail}
                  = {s \in IncidentalRuns(grid) :
                        /\ Len(s[1]) >= 3
                        /\ s[1] \in generator.available_answers}
            /\ Cardinality(tail) = Len(updated_words) - n
            /\ \A j, k \in (n + 1)..Len(updated_words) :
                  (/\ updated_words[j].text = updated_words[k].text
                   /\ updated_words[j].row = updated_words[k].row
                   /\ updated_words[j].col = updated_words[k].col
                   /\ updated_words[j].direction = updated_words[k].direction)
                  => j = k
            /\ \A w \in tail : CarriesCorpusClue(generator, w)

\* C14 witness: the reconciler promoted a sequence on a grid that also has
\* an incidental sequence of two letters that is an eligible answer.
C14_Witness ==
    /\ Reconciled
    /\ Len(returned.updated_words) > Len(grid.words)
    /\ \E s \in IncidentalRuns(grid) :
          Len(s[1]) = 2 /\ s[1] \in generator.available_answers

\* the origin of the shorter word is a cell of the longer word
OriginWithinSpan(shorter, longer) ==
    \E i \in 0..(Len(longer.text) - 1) :
        /\ shorter.row = SpanRow(longer.row, longer.direction, i)
        /\ shorter.col = SpanCol(longer.col, longer.direction, i)

\* C15: the reconciler drops a word exactly when the list holds another
\* word in the other direction whose text strictly contains the word's
\* text and whose span contains the word's origin.
C15_DroppedWords ==
    Reconciled =>
        LET updated_words == ToSet(returned.updated_words)
            final_words == ToSet(returned.value[1])
        IN  \A w \in updated_words :
                w \notin final_words
                <=> \E other \in updated_words :
                       /\ IsSubstring(w.text, other.text)
                       /\ Len(w.text) < Len(other.text)
                       /\ w.direction # other.direction
                       /\ OriginWithinSpan(w, other)

----------------------------------------------------------------------------
(* get_best_quality_words (specification SpecLookup)                       *)

\* the record is not excluded, matches the pattern position by position and
\* is good enough
Wanted(e, call) ==
    /\ call.used_answers # None => e[1] \notin call.used_answers[1]
    /\ call.pattern # None =>
          /\ Len(call.pattern[1]) = Len(e[1])
          /\ \A i \in 1..Len(e[1]) :
                call.pattern[1][i] = "." \/ call.pattern[1][i] = e[1][i]
    /\ e[3] <= call.target_quality

\* C16: get_best_quality_words returns, in corpus order, the first `limit`
\* wanted records among the first min(500, bucket size) records of the
\* length's bucket, never more than `limit` records, and nothing when the
\* corpus has no answer of that length.
C16_BestQualityWords ==
    returned.op = "get_best_quality_words" =>
        LET value == returned.value[1]
        IN  /\ Len(value) <= returned.max_results
            /\ IF returned.length \in DOMAIN generator.answers_by_length
               THEN LET bucket == generator.answers_by_length[returned.length]
                        scanned == SubSeq(bucket, 1, Min(500, Len(bucket)))
                        wanted == SelectSeq(scanned,
                                            LAMBDA e : Wanted(e, returned))
                    IN  value = SubSeq(wanted, 1,
                                       Min(returned.max_results, Len(wanted)))
               ELSE value = <<>>

----------------------------------------------------------------------------
(* The corpus and the batch (specifications Spec and SpecAttempt)          *)

\* C17: on an empty corpus the batch loop never executes an attempt.
C17_NoAttemptOnEmptyCorpus ==
    generator.clue_list = <<>> => attempt = 0 /\ log = <<>>

NoSeed == CenterWords(generator) = <<>>

\* C18: with no quality-1 seed candidate an attempt returns no grid, and the
\* batch then spends one iteration, leaves the three collections as they
\* are and stays in its loop.
C18_NoSeedIteration ==
    /\ [](NoSeed => \A puzzle \in attempt_results : puzzle.grid = None)
    /\ [][(NoSeed /\ attempt' # attempt) =>
             /\ attempt' = attempt + 1
             /\ perfect_crosswords' = perfect_crosswords
             /\ imperfect_crosswords' = imperfect_crosswords
             /\ constraint_violating_crosswords'
                   = constraint_violating_crosswords
             /\ result' = result
             /\ pc = "loop"
             /\ pc' = "loop"]_vars

\* C18 witness: a corpus with answers and no quality-1 seed; two attempts
\* have been made, the collections are empty and the loop goes on.
C18_Witness ==
    /\ NoSeed
    /\ generator.clue_list # <<>>
    /\ attempt >= 2
    /\ attempt < max_iterations
    /\ pc = "loop"
    /\ perfect_crosswords = <<>>
    /\ imperfect_crosswords = <<>>
    /\ constraint_violating_crosswords = <<>>

\* the corpus records of an answer
RecordsOf(gen, a) ==
    {n \in 1..Len(gen.clue_list) : gen.clue_list[n][2] = a}

C20_InvalidCountIsValidatorRule ==
    /\ CountInvalidSequences(grid, generator.available_answers)
          = Cardinality({s \in IncidentalRuns(grid) :
                            /\ Len(s[1]) >= 3
                            /\ s[1] \notin generator.available_answers})
    /\ CountInvalidSequences(grid, generator.available_answers) = 0

----------------------------------------------------------------------------
(* Properties of the tier lists of generate_crosswords_batch              *)
(* (specification Spec)                                                   *)

\* C21: after every iteration of the batch the Imperfect list holds at
\* most count - |Perfect| grids and the Constraint-violating list holds at
\* most count - |Perfect| - |Imperfect| grids.
C21_TiersWithinOpenSlots ==
    /\ Len(imperfect_crosswords) <= count - Len(perfect_crosswords)
    /\ Len(constraint_violating_crosswords)
          <= count - Len(perfect_crosswords) - Len(imperfect_crosswords)

\* the grids of the returned list
Returned == {result[n] : n \in 1..Len(result)}

\* the grids the attempts of the run put into a tier
GridsOfTier(tier) == {log[n].grid : n \in {m \in Productive : log[m].tier = tier}}

\* C22: the Constraint-violating grids of the returned list are the
\* lowest-penalty ones of the failed attempts of the run: no failed attempt
\* that is not returned has a strictly lower penalty than a returned
\* Constraint-violating grid.
C22_BestConstraintViolatingReturned ==
    pc = "returned" =>
        \A dropped \in GridsOfTier("constraint_violating") \ Returned :
            \A kept \in Returned :
                TierOf(kept) = "constraint_violating"
                    => ~FracLess(dropped.constraint_score,
                                 kept.constraint_score)

\* C22 witness: a returned Constraint-violating grid that displaced a
\* failed attempt found before it, of strictly higher penalty, at a time
\* the list was full
C22_Witness ==
    /\ pc = "returned"
    /\ \E dropped \in GridsOfTier("constraint_violating") \ Returned :
          \E kept \in Returned :
              /\ TierOf(kept) = "constraint_violating"
              /\ dropped.id < kept.id
              /\ FracLess(kept.constraint_score, dropped.constraint_score)

\* C23: the Imperfect grids of the returned list are the best-scoring ones
\* of the Imperfect attempts of the run: no Imperfect grid that is not
\* returned has a strictly lower quality score than a returned Imperfect
\* grid.
C23_BestImperfectReturned ==
    pc = "returned" =>
        \A dropped \in GridsOfTier("imperfect") \ Returned :
            \A kept \in Returned :
                TierOf(kept) = "imperfect"
                    => ~FracLess(dropped.quality_score, kept.quality_score)

----------------------------------------------------------------------------
(* Properties of the scores (specifications SpecAttempt and SpecGrid)      *)

\* the reconciled word list of the grid of the attempt
ReconciledWords ==
    GetFinalWords(grid, Some(generator.available_answers),
                  Some(generator.clue_lookup), generator.clue_list)

\* the attempt has returned a grid that passed the acceptance test
Succeeded ==
    /\ pc = "returned"
    /\ attempt_result.grid # None
    /\ attempt_result.is_valid

\* C24: the quality score of a succeeded grid is the arithmetic mean of
\* quality over its reconciled word list; it is never below 1.0, and it is
\* 1.0 (the grid is Perfect) exactly when the reconciled list holds no
\* word of quality 2.
C24_QualityScoreIsMean ==
    Succeeded =>
        LET words == ReconciledWords
            score == attempt_result.quality_score
            total == SumSeq([n \in 1..Len(words) |-> words[n].quality])
        IN  /\ words # <<>>
            /\ \A n \in 1..Len(words) : words[n].quality \in {1, 2}
            /\ score.den > 0
            /\ score.num * Len(words) = total * score.den
            /\ ~FracLess(score, One)
            /\ FracEq(score, One)
                  <=> \A n \in 1..Len(words) : words[n].quality = 1
            /\ IsPerfectScore(score)
                  <=> ~\E n \in 1..Len(words) : words[n].quality = 2

\* C24 witness: a succeeded grid whose reconciled list holds a promoted
\* word of quality 2 beside the placed words of quality 1
C24_Witness ==
    /\ Succeeded
    /\ \E n \in 1..Len(ReconciledWords) : ReconciledWords[n].quality = 2
    /\ \E n \in 1..Len(ReconciledWords) : ReconciledWords[n].quality = 1
    /\ Len(ReconciledWords) > Len(grid.words)

\* the difference of two penalties of one denominator
Raise(from, to) == to.num - from.num

\* C25: the penalty of a grid is max(0, 20 - reconciled word count)
\* + max(0, 50 - 50 * quality score) + 2 * empty cells
\* + 5 * invalid sequences + 10 * consecutive-empty violations; one more
\* invalid sequence or one more consecutive-empty violation raises it by
\* more than one more empty cell does, and it does not decrease when one of
\* the three counts grows.
C25_PenaltyFormula ==
    LET w == Len(ReconciledWords)
        q == CalculateAverageQuality(generator, grid,
                                     Some(generator.available_answers),
                                     Some(generator.clue_lookup))
        e == Cardinality(EmptyCells(grid))
        i == CountInvalidSequences(grid, generator.available_answers)
        c == CountConsecutiveEmptyViolations(grid)
        penalty == ScoreConstraintViolatingPuzzle(generator, grid)
        more_empty == TotalPenalty(w, q, e + 1, i, c)
        more_invalid == TotalPenalty(w, q, e, i + 1, c)
        more_violations == TotalPenalty(w, q, e, i, c + 1)
    IN  /\ q.den > 0
        /\ penalty.den > 0
        /\ penalty.num * q.den
              = penalty.den
                * ((Max(0, 20 - w) + 2 * e + 5 * i + 10 * c) * q.den
                   + Max(0, 50 * q.den - 50 * q.num))
        /\ FracEq(penalty, TotalPenalty(w, q, e, i, c))
        /\ more_empty.den = penalty.den
        /\ more_invalid.den = penalty.den
        /\ more_violations.den = penalty.den
        /\ Raise(penalty, more_invalid) > Raise(penalty, more_empty)
        /\ Raise(penalty, more_violations) > Raise(penalty, more_empty)
        /\ Raise(penalty, more_empty) >= 0
        /\ Raise(penalty, more_invalid) >= 0
        /\ Raise(penalty, more_violations) >= 0

\* C25 witness: an attempt has returned a failed grid that has empty
\* cells, an invalid sequence and a consecutive-empty violation
C25_Witness ==
    /\ pc = "returned"
    /\ attempt_result.grid # None
    /\ ~attempt_result.is_valid
    /\ EmptyCells(grid) # {}
    /\ CountInvalidSequences(grid, generator.available_answers) > 0
    /\ CountConsecutiveEmptyViolations(grid) > 0

----------------------------------------------------------------------------
(* Properties of find_intersecting_words (specification SpecSearch)       *)

\* the search has returned
Searched == pc = "returned" /\ returned.op = "find_intersecting_words"

\* a word at (row, col) in a direction covers a cell of the source word and
\* has the letter of the source word there
CrossesAtLetter(source, answer, row, col, direction) ==
    \E i \in 0..(Len(answer) - 1), k \in 0..(Len(source.text) - 1) :
        /\ SpanRow(row, direction, i) = SpanRow(source.row, source.direction, k)
        /\ SpanCol(col, direction, i) = SpanCol(source.col, source.direction, k)
        /\ answer[i + 1] = source.text[k + 1]

\* C26: find_intersecting_words returns at most 20 proposals; every
\* proposal is perpendicular to the source word, covers a cell of the
\* source word with the source word's letter there, is no answer already
\* used in the grid, has quality 1 and passes is_valid_placement with the
\* eligible answers on the grid as given; the search leaves the grid as it
\* was.
C26_IntersectionProposals ==
    Searched =>
        LET source == returned.word
            before == returned.before
            proposals == returned.value[1]
        IN  /\ Len(proposals) <= 20
            /\ \A n \in 1..Len(proposals) :
                  LET p == proposals[n]
                  IN  /\ p[6] \in Directions \ {source.direction}
                      /\ CrossesAtLetter(source, p[1], p[4], p[5], p[6])
                      /\ \A k \in 1..Len(before.words) :
                            before.words[k].text # p[1]
                      /\ p[3] = 1
                      /\ IsValidPlacement(before, p[1], p[4], p[5], p[6],
                                          Some(generator.available_answers))
            /\ grid = before

\* C26 witness: a search that returned 20 proposals and left out a further
\* crossing word of quality 1 that is not used and would pass the validator
C26_Witness ==
    /\ Searched
    /\ Len(returned.value[1]) = 20
    /\ \E n \in 1..Len(generator.clue_list), row \in 0..(grid.height - 1),
          col \in 0..(grid.width - 1) :
          LET e == generator.clue_list[n]
              direction == CHOOSE d \in Directions : d # returned.word.direction
          IN  /\ e[3] = 1
              /\ e[2] \notin GetUsedAnswers(returned.before)
              /\ CrossesAtLetter(returned.word, e[2], row, col, direction)
              /\ IsValidPlacement(returned.before, e[2], row, col, direction,
                                  Some(generator.available_answers))
              /\ \A m \in 1..Len(returned.value[1]) :
                    returned.value[1][m][1] # e[2]

----------------------------------------------------------------------------
(* Properties of count_consecutive_empty_violations (specification        *)
(* SpecGrid)                                                               *)

\* the rows and columns, as (direction, index) pairs
Lines(g) ==
    ({ACROSS} \X (0..(g.height - 1))) \cup ({DOWN} \X (0..(g.width - 1)))

\* the cells of a row or column, in order
LineCells(g, line) ==
    IF line[1] = ACROSS THEN Row(g, line[2]) ELSE Column(g, line[2])

\* the row or column has a run of more than limit empty cells
HasEmptyRunOver(cells, limit) ==
    \E from \in 1..Len(cells) :
        /\ from + limit <= Len(cells)
        /\ \A i \in from..(from + limit) : cells[i] = "."

\* C27: count_consecutive_empty_violations is the number of rows and
\* columns that hold a run of more than max(width, height) // 2 empty
\* cells, and it is positive exactly when such a run exists.
C27_ViolationsCountLines ==
    LET limit == Max(grid.width, grid.height) \div 2
        long == {line \in Lines(grid) :
                    HasEmptyRunOver(LineCells(grid, line), limit)}
    IN  /\ CountConsecutiveEmptyViolations(grid) = Cardinality(long)
        /\ CountConsecutiveEmptyViolations(grid) > 0 <=> long # {}

----------------------------------------------------------------------------
(* Properties of the expansion loop (specification SpecAttempt)           *)

\* the last word of the word list
LastWord(g) == g.words[Len(g.words)]

\* no placed word of the grid has a crossing proposal
NoProposalLeft ==
    \A k \in 1..Len(grid.words) :
        FindIntersectingWords(generator, grid, grid.words[k].text,
                              grid.words[k].row, grid.words[k].col,
                              grid.words[k].direction) = <<>>

\* the attempt can take a step
CanStep ==
    CASE pc = "seed" ->
             SeedCanFail(generator) \/ SeedGrids(generator) # {}
      [] pc = "expand" ->
             iteration = 50 \/ PassOutcomes(generator, grid, 1) # {}
      [] pc = "accept" -> TRUE
      [] OTHER -> FALSE

\* the steps an attempt has left at most: the phases ahead, and in the
\* expansion the passes ahead
StepsLeft ==
    CASE pc = "seed" -> 50 + 3
      [] pc = "expand" -> (50 - iteration) + 2
      [] pc = "accept" -> 1
      [] OTHER -> 0

\* C28: every attempt returns, with no grid, a succeeded grid or a failed
\* grid: until it has returned it can take a step, and every step leaves
\* fewer steps to take.  The expansion loop makes at most 50 passes, a pass
\* places at most one word, every word is placed where is_valid_placement
\* has just accepted it, and the expansion ends at the first pass that
\* places no word.
C28_AttemptTerminates ==
    /\ [](pc # "returned" => CanStep)
    /\ [](StepsLeft >= 0)
    /\ [][StepsLeft' < StepsLeft]_vars
    /\ [](pc = "returned" =>
             \/ attempt_result = NoGrid
             \/ /\ attempt_result.grid = Some(grid)
                /\ attempt_result.is_valid \in BOOLEAN)
    /\ [](iteration <= 50)
    /\ [][grid' # grid =>
             /\ Len(grid'.words) = Len(grid.words) + 1
             /\ SubSeq(grid'.words, 1, Len(grid.words)) = grid.words
             /\ IsValidPlacement(grid, LastWord(grid').text,
                                 LastWord(grid').row, LastWord(grid').col,
                                 LastWord(grid').direction,
                                 Some(generator.available_answers))
             /\ pc = "expand" => iteration' = iteration + 1]_vars
    /\ [][iteration' # iteration =>
             /\ iteration' = iteration + 1
             /\ Len(grid'.words) = Len(grid.words) + 1
             /\ pc' = "expand"]_vars
    /\ [][(pc = "expand" /\ pc' # "expand") =>
             /\ pc' = "accept"
             /\ grid' = grid
             /\ iteration = 50 \/ NoProposalLeft]_vars
    /\ [][(pc = "expand" /\ iteration < 50 /\ NoProposalLeft) =>
             pc' = "accept"]_vars

\* C28 witness: an attempt that placed its start word and two more words
\* in two passes, found nothing in the third pass and returned its grid
C28_Witness ==
    /\ pc = "returned"
    /\ attempt_result.grid = Some(grid)
    /\ iteration = 2
    /\ Len(grid.words) = 3
    /\ NoProposalLeft

\* a placed word that the validator would accept once more, at its own
\* place or at another, as a word crossing another placed word
RepeatWouldPass ==
    \E k \in 1..Len(grid.words), j \in 1..Len(grid.words),
       origin \in Origins(grid) :
        /\ j # k
        /\ grid.words[j].direction # grid.words[k].direction
        /\ CrossesAtLetter(grid.words[j], grid.words[k].text, origin[1],
                           origin[2], grid.words[k].direction)
        /\ IsValidPlacement(grid, grid.words[k].text, origin[1], origin[2],
                            grid.words[k].direction,
                            Some(generator.available_answers))

\* C30: in every grid of an attempt the placed words have pairwise
\* distinct answer texts, and a grid that fails the acceptance test fails
\* one of its other four conditions.
C30_NoRepeatedAnswers ==
    /\ \A i \in 1..Len(grid.words) : \A j \in 1..Len(grid.words) :
          i # j => grid.words[i].text # grid.words[j].text
    /\ (pc = "returned" /\ attempt_result.grid # None
        /\ ~attempt_result.is_valid) =>
          \/ 4 * Cardinality(EmptyCells(grid))
                > generator.width * generator.height
          \/ Len(grid.words) < 6
          \/ 2 * Len(grid.words) + 1 < generator.width + generator.height
          \/ CountInvalidSequences(grid, generator.available_answers) > 0
          \/ LongEmptyRun(grid)

\* C30 witness: an attempt returned a grid of three or more words, one of
\* which the validator would accept a second time across another word
C30_Witness ==
    /\ pc = "returned"
    /\ attempt_result.grid = Some(grid)
    /\ Len(grid.words) >= 3
    /\ RepeatWouldPass

====
